---- MODULE Spec2Model ----
(***************************************************************************)
(* Card generator: label resolution, template editor layout state, and    *)
(* the import pipeline (mapped-column parser, fallback parser, merge).     *)
(*                                                                         *)
(* Text is modelled as a sequence of one-character strings, so that        *)
(* splitting, trimming and lower-casing are computed character by          *)
(* character.  <<>> is the empty string.                                   *)
(***************************************************************************)
EXTENDS Integers, Sequences, FiniteSets, TLC

VARIABLES
    \* ---- label resolution (getElementValue) ----
    rSide,          \* "editor" (TemplateEditor) or "card" (IDCard)
    rKey,           \* element key being resolved
    rCustomLabels,  \* customLabels: element key -> label text
    rRecord,        \* the record: [hasExtras, extras]; extras is a sequence of
                    \* <<key, value>> entries in insertion order
    rResult,        \* [done, value]: the outcome of the call
    \* ---- template editor (TemplateEditor component state) ----
    templateType,   \* the archetype being edited (prop)
    currentLayout,  \* the parent's active layout (prop; also the card's layout)
    layout,         \* element key -> ElementPosition (absent key = deleted)
    selectedElement,
    isDragging,
    dragOffset,     \* [x, y] in units of 1/100 pixel
    customTextCount,
    customPhotoCount,
    addedKeys,         \* history: the keys the adds of this editing session have yielded
    customElements, \* sequence of custom element keys
    customLabels,   \* editor's custom label map
    lastOp,         \* the editor operation that produced this state
    opCount,        \* number of editor operations performed
    \* ---- import (handleFileUpload) ----
    attendees,      \* in-memory record collection (React state)
    store,          \* server table of records
    isProcessingFile,
    pc,             \* position of the import handler
    file,           \* the uploaded file: [lines, kind]
    aiOutcome,      \* how the inference step ended for this import
    columnMapping,  \* the classifier's column mapping
    parsedData,     \* the parser's output for this import
    importNo,       \* number of imports started (stands for Date.now())
    before,         \* the collection the running handler closed over
    mergedList,     \* the merged collection sent to the server
    fallbackJobs,   \* pending fallback reads: sequence of [stage, text, parsed]
    \* ---- the two parsers applied to one input ----
    pFile,          \* file content
    pSelectedTemplate, \* the archetype the caller passes, or "none"
    pMapping,       \* the classifier's column mapping
    pParsed,        \* outcome of the mapped-column parser
    pFallback,      \* outcome of parseTSVData
    \* the saved_templates table and its requests (part_003)
    savedTemplates, \* the rows of saved_templates, in insertion order
    tNow,           \* CURRENT_TIMESTAMP, in seconds
    tNextId,        \* number of the next generated template id
    tRequests,      \* requests handled so far
    tResponse,      \* the response to the last request
    tLastWrite,     \* history: the last save, update or delete that took effect
    \* the template editor's save dialog (TemplateEditor.tsx 353-440)
    isOpen,             \* the editor is open (the parent's flag behind onClose)
    showSaveModal,
    templateName,
    templateVisibility,
    isSaving,
    editingTemplateId,  \* the saved template being edited, or "none"
    token,              \* the signed-in user, or NoUser when the token is no longer valid
    saveCall,           \* the fetch of handleSaveAsTemplate / handleUpdateExistingTemplate
    \* the record edit modal (EditModal.tsx, App.tsx handleSaveEdit)
    editModalOpen,
    editingAttendee,
    isBulkEdit,
    isCreatingNew,
    selectedIds,
    formData,
    editCall,           \* the handleSaveEdit call in flight
    alerts,             \* the messages shown by alert(), oldest first
    clicks,             \* user actions so far
    \* the field lists of the main screen (App.tsx) and of the edit modal
    customFields,       \* custom field labels, in insertion order
    detectedFields,     \* the labels listed on the main screen
    hiddenFields,       \* the set of hidden labels
    removedFields,      \* EditModal: the labels deleted while the modal is open
    fieldOp,            \* the field operation that produced this state
    \* one call of buildCardFilename (part_007)
    fnAttendee,
    fnTemplate,
    fnExtension,
    fnResult,           \* [done, rendered, filename]
    \* one layout rendered over a list of records (App.tsx 1566-1583)
    rpRecords,          \* the records, in list order
    rpResults,          \* the text resolved for each record rendered so far
    \* handleImageUpload (App.tsx 736-788)
    uploadCall          \* the upload in flight: [stage, id, list, file, fallback, payload]

resolveVars == <<rSide, rKey, rCustomLabels, rRecord, rResult>>
editorVars == <<templateType, currentLayout, layout, selectedElement, isDragging,
                dragOffset, customTextCount, customPhotoCount, addedKeys, customElements,
                customLabels, lastOp, opCount>>
importVars == <<attendees, store, isProcessingFile, pc, file, aiOutcome,
                columnMapping, parsedData, importNo, before, mergedList,
                fallbackJobs>>
parseVars == <<pFile, pSelectedTemplate, pMapping, pParsed, pFallback>>
templateVars == <<savedTemplates, tNow, tNextId, tRequests, tResponse, tLastWrite>>
\* the variables of the template server and of the save flows, for the
\* specifications that leave them alone
dialogVars == <<isOpen, showSaveModal, templateName, templateVisibility, isSaving,
                editingTemplateId, token, saveCall>>
modalVars == <<editModalOpen, editingAttendee, isBulkEdit, isCreatingNew, selectedIds,
               formData, editCall>>
saveVars == <<dialogVars, modalVars, alerts, clicks>>
fieldVars == <<customFields, detectedFields, hiddenFields, removedFields, fieldOp>>
filenameVars == <<fnAttendee, fnTemplate, fnExtension, fnResult>>
replayVars == <<rpRecords, rpResults>>
uploadVars == <<uploadCall>>
lateVars == <<fieldVars, filenameVars, replayVars, uploadVars>>
restVars == <<templateVars, saveVars, lateVars>>
vars == <<resolveVars, editorVars, importVars, parseVars, restVars>>

----------------------------------------------------------------------------
(* Text helpers                                                            *)

Max(a, b) == IF a >= b THEN a ELSE b
Min(a, b) == IF a <= b THEN a ELSE b

\* String.prototype.toLowerCase on one character (the letters the model uses)
LowerChar(c) ==
    CASE c = "A" -> "a" [] c = "B" -> "b" [] c = "C" -> "c" [] c = "D" -> "d"
      [] c = "E" -> "e" [] c = "I" -> "i" [] c = "K" -> "k" [] c = "L" -> "l"
      [] c = "M" -> "m" [] c = "N" -> "n" [] c = "O" -> "o" [] c = "P" -> "p"
      [] c = "R" -> "r" [] c = "S" -> "s" [] c = "T" -> "t" [] c = "W" -> "w"
      [] c = "X" -> "x" [] c = "Y" -> "y"
      [] OTHER -> c

toLowerCase(s) == [i \in 1..Len(s) |-> LowerChar(s[i])]

\* String.prototype.toUpperCase on one character
UpperChar(c) ==
    CASE c = "a" -> "A" [] c = "b" -> "B" [] c = "c" -> "C" [] c = "d" -> "D"
      [] c = "e" -> "E" [] c = "i" -> "I" [] c = "k" -> "K" [] c = "l" -> "L"
      [] c = "m" -> "M" [] c = "n" -> "N" [] c = "o" -> "O" [] c = "p" -> "P"
      [] c = "r" -> "R" [] c = "s" -> "S" [] c = "t" -> "T" [] c = "w" -> "W"
      [] c = "x" -> "X" [] c = "y" -> "Y"
      [] OTHER -> c

toUpperCase(s) == [i \in 1..Len(s) |-> UpperChar(s[i])]

\* characters String.prototype.trim removes
IsSpace(c) == c \in {" ", "\t", "\r", "\n"}

RECURSIVE TrimLeft(_)
TrimLeft(s) == IF s # <<>> /\ IsSpace(Head(s)) THEN TrimLeft(Tail(s)) ELSE s

RECURSIVE TrimRight(_)
TrimRight(s) ==
    IF s # <<>> /\ IsSpace(s[Len(s)]) THEN TrimRight(SubSeq(s, 1, Len(s) - 1)) ELSE s

trim(s) == TrimRight(TrimLeft(s))

\* String.prototype.includes for a single character
includesChar(s, c) == \E i \in 1..Len(s) : s[i] = c

\* String.prototype.includes / startsWith for a text
startsWith(s, p) == Len(s) >= Len(p) /\ SubSeq(s, 1, Len(p)) = p
includes(s, p) == \E i \in 1..(Len(s) - Len(p) + 1) : SubSeq(s, i, i + Len(p) - 1) = p

\* String.prototype.split on a one-character separator: always at least one piece
RECURSIVE split(_, _)
split(s, d) ==
    IF \A i \in 1..Len(s) : s[i] # d
    THEN <<s>>
    ELSE LET i == CHOOSE j \in 1..Len(s) : s[j] = d /\ \A k \in 1..(j - 1) : s[k] # d
         IN <<SubSeq(s, 1, i - 1)>> \o split(SubSeq(s, i + 1, Len(s)), d)

\* Array.prototype.join with a one-character separator
RECURSIVE join(_, _)
join(pieces, d) ==
    IF pieces = <<>> THEN <<>>
    ELSE IF Len(pieces) = 1 THEN pieces[1]
    ELSE pieces[1] \o <<d>> \o join(Tail(pieces), d)

SeqRange(s) == {s[i] : i \in 1..Len(s)}

----------------------------------------------------------------------------
(* Label resolution                                                        *)

\* the text of an element key
KeyText(k) ==
    CASE k = "name" -> <<"n", "a", "m", "e">>
      [] k = "company" -> <<"c", "o", "m", "p", "a", "n", "y">>
      [] k = "role" -> <<"r", "o", "l", "e">>
      [] k = "registrationId" ->
            <<"r", "e", "g", "i", "s", "t", "r", "a", "t", "i", "o", "n", "I", "d">>
      [] k = "image" -> <<"i", "m", "a", "g", "e">>
      [] k = "qrCode" -> <<"q", "r", "C", "o", "d", "e">>
      [] k = "customText1" -> <<"c", "u", "s", "t", "o", "m", "T", "e", "x", "t", "1">>
      [] k = "customText2" -> <<"c", "u", "s", "t", "o", "m", "T", "e", "x", "t", "2">>

\* TemplateEditor.getDefaultLabel: labels[key] || key
getDefaultLabel(k) ==
    CASE k = "name" -> <<"N", "a", "m", "e">>
      [] k = "company" -> <<"C", "o", "m", "p", "a", "n", "y">>
      [] k = "registrationId" -> <<"I", "D">>
      [] k = "role" -> <<"R", "o", "l", "e">>
      [] OTHER -> KeyText(k)

\* obj[key] on an insertion-ordered object: the value, or Undefined
Undefined == <<"undefined">>
HasKey(obj, key) == \E i \in 1..Len(obj) : obj[i][1] = key
Lookup(obj, key) ==
    IF HasKey(obj, key)
    THEN obj[CHOOSE i \in 1..Len(obj) : obj[i][1] = key][2]
    ELSE Undefined

\* JavaScript truthiness of a text or undefined
Truthy(v) == v # Undefined /\ v # <<>>

\* customLabels[key] || fallback
LabelOf(labels, k, fallback) ==
    IF k \in DOMAIN labels /\ Truthy(labels[k]) THEN labels[k] ELSE fallback

\* the case-insensitive scan: first entry whose lower-cased key equals lowerLabel
CaseInsensitiveMatches(extras, lowerLabel) ==
    {i \in 1..Len(extras) : toLowerCase(extras[i][1]) = lowerLabel}

FirstIndex(S) == CHOOSE i \in S : \A j \in S : i <= j
LastIndex(S) == CHOOSE i \in S : \A j \in S : i >= j

ScanLast(extras, label) ==
    LET m == CaseInsensitiveMatches(extras, toLowerCase(label))
    IN IF m # {} THEN extras[LastIndex(m)][2] ELSE label

ScanExtras(extras, label) ==
    LET m == CaseInsensitiveMatches(extras, toLowerCase(label))
    IN IF m # {} THEN extras[FirstIndex(m)][2] ELSE label

\* the lookup shared by both getElementValue implementations; the record has
\* no extras object when hasExtras is FALSE (also: no record selected)
ResolveLabel(record, label) ==
    IF record.hasExtras
    THEN IF Truthy(Lookup(record.extras, label))
         THEN Lookup(record.extras, label)
         ELSE ScanExtras(record.extras, label)
    ELSE label

\* TemplateEditor.getElementValue
EditorGetElementValue(k, labels, record) ==
    IF k = "image" THEN <<"P", "H", "O", "T", "O">>
    ELSE IF k = "qrCode" THEN <<"#", "#", "#">>
    ELSE ResolveLabel(record, LabelOf(labels, k, getDefaultLabel(k)))

\* IDCard.getElementValue
CardGetElementValue(k, labels, record) ==
    ResolveLabel(record, LabelOf(labels, k, KeyText(k)))

getElementValue(side, k, labels, record) ==
    IF side = "editor" THEN EditorGetElementValue(k, labels, record)
    ELSE CardGetElementValue(k, labels, record)

\* the label a side resolves for a key
ElementLabel(side, k, labels) ==
    LabelOf(labels, k, IF side = "editor" THEN getDefaultLabel(k) ELSE KeyText(k))

\* ---- inputs of the resolution check ----

MaxExtras == 2

TextName == <<"N", "a", "m", "e">>
TextNameLower == <<"n", "a", "m", "e">>
TextNameUpper == <<"N", "A", "M", "E">>
TextID == <<"I", "D">>
TextSchoolName == <<"S", "c", "h", "o", "o", "l", " ", "N", "a", "m", "e">>
TextSchoolNameLower == <<"s", "c", "h", "o", "o", "l", " ", "n", "a", "m", "e">>
TextX == <<"X">>
TextY == <<"Y">>

ResolveKeys == {"name", "registrationId", "image", "customText1"}
ExtraKeyTexts == {TextName, TextNameLower, TextNameUpper, TextID, TextSchoolName}
ExtraValueTexts == {<<>>, TextX, TextY}
CustomLabelTexts == {<<>>, TextName, TextNameLower, TextSchoolNameLower, TextX}

\* insertion-ordered objects with at most n entries and distinct keys
RECURSIVE ObjectsUpTo(_)
ObjectsUpTo(n) ==
    IF n = 0 THEN {<<>>}
    ELSE LET smaller == ObjectsUpTo(n - 1)
         IN smaller \cup
            {Append(o, <<k, v>>) : o \in {q \in smaller : Len(q) = n - 1},
                                   k \in ExtraKeyTexts, v \in ExtraValueTexts}

DistinctKeys(obj) == \A i, j \in 1..Len(obj) : obj[i][1] = obj[j][1] => i = j

ResolveRecords ==
    {[hasExtras |-> FALSE, extras |-> <<>>]} \cup
    {[hasExtras |-> TRUE, extras |-> o] : o \in {q \in ObjectsUpTo(MaxExtras) : DistinctKeys(q)}}

\* custom label maps with at most one entry
ResolveLabelMaps ==
    {<<>>} \cup {[x \in {k} |-> l] : k \in ResolveKeys, l \in CustomLabelTexts}

EditorIdle ==
    /\ templateType = "conference"
    /\ currentLayout = <<>>
    /\ layout = <<>>
    /\ opCount = 0
    /\ selectedElement = "none"
    /\ isDragging = FALSE
    /\ dragOffset = [x |-> 0, y |-> 0]
    /\ customTextCount = 0
    /\ customPhotoCount = 0
    /\ addedKeys = {}
    /\ customElements = <<>>
    /\ customLabels = <<>>
    /\ lastOp = [op |-> "init", key |-> "none"]

ImportIdle ==
    /\ attendees = <<>>
    /\ store = <<>>
    /\ isProcessingFile = FALSE
    /\ pc = "idle"
    /\ file = <<>>
    /\ aiOutcome = "none"
    /\ columnMapping = <<>>
    /\ parsedData = <<>>
    /\ importNo = 0
    /\ before = <<>>
    /\ mergedList = <<>>
    /\ fallbackJobs = <<>>

ParseIdle ==
    /\ pFile = <<>>
    /\ pSelectedTemplate = "none"
    /\ pMapping = [isNull |-> TRUE]
    /\ pParsed = [done |-> FALSE, threw |-> FALSE, records |-> <<>>]
    /\ pFallback = [done |-> FALSE, records |-> <<>>]

TemplateIdle ==
    /\ savedTemplates = <<>>
    /\ tNow = 0
    /\ tNextId = 1
    /\ tRequests = 0
    /\ tResponse = [op |-> "none"]
    /\ tLastWrite = [op |-> "none"]

SaveIdle ==
    /\ isOpen = FALSE
    /\ showSaveModal = FALSE
    /\ templateName = <<>>
    /\ templateVisibility = "private"
    /\ isSaving = FALSE
    /\ editingTemplateId = "none"
    /\ token = [id |-> 0]
    /\ saveCall = [stage |-> "idle"]
    /\ editModalOpen = FALSE
    /\ editingAttendee = [none |-> TRUE]
    /\ isBulkEdit = FALSE
    /\ isCreatingNew = FALSE
    /\ selectedIds = {}
    /\ formData = <<>>
    /\ editCall = [stage |-> "idle"]
    /\ alerts = <<>>
    /\ clicks = 0

FieldIdle ==
    /\ customFields = <<>>
    /\ detectedFields = <<>>
    /\ hiddenFields = {}
    /\ removedFields = {}
    /\ fieldOp = [op |-> "none"]

FilenameIdle ==
    /\ fnAttendee = <<>>
    /\ fnTemplate = <<>>
    /\ fnExtension = "png"
    /\ fnResult = [done |-> FALSE]

ReplayIdle ==
    /\ rpRecords = <<>>
    /\ rpResults = <<>>

UploadIdle == uploadCall = [stage |-> "idle"]

LateIdle == FieldIdle /\ FilenameIdle /\ ReplayIdle /\ UploadIdle

RestIdle == TemplateIdle /\ SaveIdle /\ LateIdle

ResolveIdle ==
    /\ rSide = "editor"
    /\ rKey = "name"
    /\ rCustomLabels = <<>>
    /\ rRecord = [hasExtras |-> FALSE, extras |-> <<>>]
    /\ rResult = [done |-> FALSE, value |-> <<>>]

InitResolve ==
    /\ rSide \in {"editor", "card"}
    /\ rKey \in ResolveKeys
    /\ rCustomLabels \in ResolveLabelMaps
    /\ rRecord \in ResolveRecords
    /\ rResult = [done |-> FALSE, value |-> <<>>]
    /\ EditorIdle
    /\ ImportIdle
    /\ RestIdle
    /\ ParseIdle

\* one call of getElementValue(key) by the editor preview or by the card
Resolve ==
    /\ ~rResult.done
    /\ rResult' = [done |-> TRUE,
                   value |-> getElementValue(rSide, rKey, rCustomLabels, rRecord)]
    /\ UNCHANGED <<rSide, rKey, rCustomLabels, rRecord, editorVars, importVars, parseVars,
                   restVars>>

NextResolve == Resolve

SpecResolve == InitResolve /\ [][NextResolve]_vars

\* the label the call resolved, and how it matches the record's extras
RLabel == ElementLabel(rSide, rKey, rCustomLabels)
RIsText == ~(rSide = "editor" /\ rKey \in {"image", "qrCode"})
RExactKey == rRecord.hasExtras /\ HasKey(rRecord.extras, RLabel)
RAnyCaseKeys ==
    IF rRecord.hasExtras
    THEN CaseInsensitiveMatches(rRecord.extras, toLowerCase(RLabel))
    ELSE {}

C3_CaseInsensitiveFirst ==
    (rResult.done /\ RIsText /\ ~RExactKey /\ RAnyCaseKeys # {}) =>
        rResult.value = rRecord.extras[FirstIndex(RAnyCaseKeys)][2]

\* C3 witness: two keys match ignoring case, none exactly, with different values
C3_Witness ==
    /\ rResult.done /\ RIsText /\ ~RExactKey
    /\ Cardinality(RAnyCaseKeys) = 2
    /\ rRecord.extras[1][2] # rRecord.extras[2][2]
    /\ rResult.value = TextX

\* C3 witness of the documented example: extras {"School Name": "X"} and
\* custom label "school name"
C3_WitnessSchoolName ==
    /\ rResult.done
    /\ rRecord = [hasExtras |-> TRUE, extras |-> <<<<TextSchoolName, TextX>>>>]
    /\ rKey \in DOMAIN rCustomLabels
    /\ rCustomLabels[rKey] = TextSchoolNameLower
    /\ rResult.value = TextX

----------------------------------------------------------------------------
(* Template editor                                                         *)

MaxOps == 4
CanvasWidth == 100
CanvasHeight == 200

BadgeTemplates == {"conference", "school-classic", "company-id"}

TextPos(x, y, fontSize) ==
    [x |-> x, y |-> y, fontSize |-> fontSize, textAlign |-> "center", visible |-> TRUE]

\* types.ts DEFAULT_LAYOUTS
DEFAULT_LAYOUTS(t) ==
    CASE t = "conference" ->
           [k \in {"name", "image", "company", "registrationId", "role", "qrCode"} |->
              CASE k = "name" -> TextPos(50, 52, 24)
                [] k = "image" -> [x |-> 50, y |-> 30, width |-> 25, height |-> 20, visible |-> TRUE]
                [] k = "company" -> TextPos(50, 60, 14)
                [] k = "registrationId" -> TextPos(50, 75, 10)
                [] k = "role" -> TextPos(50, 45, 12)
                [] k = "qrCode" -> [x |-> 50, y |-> 88, width |-> 15, visible |-> TRUE]]
      [] t = "school-classic" ->
           [k \in {"name", "image", "company", "registrationId", "fatherName", "motherName",
                   "dateOfBirth", "className", "contactNumber", "address", "qrCode"} |->
              CASE k = "name" -> TextPos(50, 42, 24)
                [] k = "image" -> [x |-> 50, y |-> 28, width |-> 20, height |-> 18, visible |-> TRUE]
                [] k = "company" -> TextPos(50, 10, 16)
                [] k = "registrationId" -> TextPos(50, 48, 11)
                [] k = "fatherName" -> TextPos(50, 55, 11)
                [] k = "motherName" -> TextPos(50, 60, 11)
                [] k = "dateOfBirth" -> TextPos(50, 65, 11)
                [] k = "className" -> TextPos(50, 70, 11)
                [] k = "contactNumber" -> TextPos(50, 75, 11)
                [] k = "address" -> TextPos(50, 82, 10)
                [] k = "qrCode" -> [x |-> 50, y |-> 92, width |-> 12, visible |-> FALSE]]
      [] t = "company-id" ->
           [k \in {"name", "image", "company", "registrationId", "role", "contactNumber",
                   "address", "qrCode"} |->
              CASE k = "name" -> TextPos(50, 52, 22)
                [] k = "image" -> [x |-> 50, y |-> 32, width |-> 22, height |-> 18, visible |-> TRUE]
                [] k = "company" -> TextPos(50, 12, 18)
                [] k = "registrationId" -> TextPos(50, 58, 11)
                [] k = "role" -> TextPos(50, 64, 12)
                [] k = "contactNumber" -> TextPos(50, 72, 11)
                [] k = "address" -> TextPos(50, 80, 10)
                [] k = "qrCode" -> [x |-> 50, y |-> 92, width |-> 14, visible |-> TRUE]]

\* getVisibleElements: the ELEMENTS the editor lists for an archetype, then
\* the custom elements
TemplateElements(t) ==
    CASE t = "conference" -> {"name", "image", "company", "registrationId", "role", "qrCode"}
      [] t = "company-id" -> {"name", "image", "company", "registrationId", "role",
                              "contactNumber", "address", "qrCode"}
      [] OTHER -> {"name", "image", "company", "registrationId", "fatherName", "motherName",
                   "dateOfBirth", "className", "contactNumber", "address"}

getVisibleElements == TemplateElements(templateType) \cup SeqRange(customElements)

CustomTextKey(n) == "customText" \o ToString(n)
CustomPhotoKey(n) == "customPhoto" \o ToString(n)

\* { ...obj, ...upd } ; an absent obj spreads as {}
Spread(obj, upd) ==
    [f \in DOMAIN obj \cup DOMAIN upd |-> IF f \in DOMAIN upd THEN upd[f] ELSE obj[f]]

\* prev[key], the empty object standing for undefined when spread
EntryOrEmpty(l, k) == IF k \in DOMAIN l THEN l[k] ELSE <<>>

\* { ...prev, [key]: entry }
SetEntry(l, k, entry) == [q \in DOMAIN l \cup {k} |-> IF q = k THEN entry ELSE l[q]]

HideEntry(l, k) ==
    IF k \in DOMAIN l THEN SetEntry(l, k, Spread(l[k], [visible |-> FALSE])) ELSE l

\* delete newLayout[key]
DeleteEntry(l, k) == [q \in DOMAIN l \ {k} |-> l[q]]

\* the remove button: const newLayout = { ...prev }; delete newLayout[el.key]
RemoveByHiding(l, k) == HideEntry(l, k)

RemoveFromLayout(l, k) == DeleteEntry(l, k)

\* element.visible, undefined read as falsy
IsVisible(entry) == "visible" \in DOMAIN entry /\ entry.visible = TRUE

\* the editor canvas draws el when layout[el.key] exists and is visible
OnCanvas(k) == k \in getVisibleElements /\ k \in DOMAIN layout /\ IsVisible(layout[k])

\* renderElementControl returns null when layout[el.key] is missing
HasControl(k) == k \in getVisibleElements /\ k \in DOMAIN layout

\* ---- drag arithmetic; a raw percentage is kept as its numerator over the
\* canvas size in pixels, so raw = n / size ----

\* dragOffset = client - rect.left - (element.x / 100) * rect.width, times 100
GrabOffset(client, pos, size) == 100 * client - pos * size

\* ((client - rect.left - dragOffset) / rect.width) * 100, as numerator over size
RawPercent(client, offset, size) == 100 * client - offset

\* Math.max(5, Math.min(95, v))
ClampPercent(n, size) == Max(5 * size, Min(95 * size, n))

\* Math.round(v / 2) * 2 ; Math.round(q) = floor(q + 1/2)
SnapPercent(n, size) == 2 * ((n + size) \div (2 * size))

SnapThenClamp(n, size) == Max(5, Min(95, SnapPercent(n, size)))

SnapOnly(n, size) == SnapPercent(n, size)

DragPosition(n, size) == SnapPercent(ClampPercent(n, size), size)

\* pointer positions (clientX, clientY) relative to the canvas origin, in pixels
PointerDown == {<<50, 104>>, <<51, 60>>}
PointerMove == {<<3, 194>>, <<-5, 250>>, <<52, 105>>, <<7, 13>>}

UserKeys == {"name", "image", "customText1", "customText2", "customPhoto1"}
FontSizes == {18}
ImageSizes == {30}
RenameTexts == {<<>>, TextName, TextSchoolNameLower}

\* el.label: the catalog label of an element (ELEMENTS, or "Text N" / "Image N")
ElementCatalogLabel(k) ==
    CASE k = "name" -> TextName
      [] k = "image" -> <<"P", "h", "o", "t", "o">>
      [] k = "customText1" -> <<"T", "e", "x", "t", " ", "1">>
      [] k = "customText2" -> <<"T", "e", "x", "t", " ", "2">>
      [] k = "customPhoto1" -> <<"I", "m", "a", "g", "e", " ", "1">>
      [] OTHER -> <<"?">>

NoKey == "none"

\* the layout of a saved template the editor is opened on: the default of
\* its base archetype with the custom text a previous session added and moved
SavedLayout(t) ==
    SetEntry(DEFAULT_LAYOUTS(t), "customText1",
             [x |-> 40, y |-> 60, fontSize |-> 18, textAlign |-> "center", visible |-> TRUE])

InitEditor ==
    /\ templateType \in BadgeTemplates
    /\ currentLayout \in {DEFAULT_LAYOUTS(templateType), SavedLayout(templateType)}
    /\ layout = currentLayout
    /\ selectedElement = NoKey
    /\ isDragging = FALSE
    /\ dragOffset = [x |-> 0, y |-> 0]
    /\ customTextCount = 0
    /\ customPhotoCount = 0
    /\ addedKeys = {}
    /\ customElements = <<>>
    /\ customLabels = <<>>
    /\ lastOp = [op |-> "init", key |-> NoKey]
    /\ opCount = 0
    /\ ResolveIdle
    /\ ImportIdle
    /\ RestIdle
    /\ ParseIdle

Op(name, k) == [op |-> name, key |-> k]

Budget == opCount < MaxOps /\ opCount' = opCount + 1

handleMouseDown(k, p) ==
    /\ Budget
    /\ OnCanvas(k)
    /\ selectedElement' = k
    /\ isDragging' = TRUE
    /\ dragOffset' = IF k \in DOMAIN layout
                     THEN [x |-> GrabOffset(p[1], layout[k].x, CanvasWidth),
                           y |-> GrabOffset(p[2], layout[k].y, CanvasHeight)]
                     ELSE dragOffset
    /\ lastOp' = Op("mouseDown", k)
    /\ UNCHANGED <<templateType, addedKeys, currentLayout, layout, customTextCount, customPhotoCount,
                   customElements, customLabels>>

handleMouseMove(p) ==
    /\ Budget
    /\ isDragging /\ selectedElement # NoKey
    /\ LET rawX == RawPercent(p[1], dragOffset.x, CanvasWidth)
           rawY == RawPercent(p[2], dragOffset.y, CanvasHeight)
           newX == DragPosition(rawX, CanvasWidth)
           newY == DragPosition(rawY, CanvasHeight)
       IN /\ layout' = SetEntry(layout, selectedElement,
                                Spread(EntryOrEmpty(layout, selectedElement),
                                       [x |-> newX, y |-> newY]))
          /\ lastOp' = [op |-> "mouseMove", key |-> selectedElement,
                        rawX |-> rawX, rawY |-> rawY]
    /\ UNCHANGED <<templateType, addedKeys, currentLayout, selectedElement, isDragging, dragOffset,
                   customTextCount, customPhotoCount, customElements, customLabels>>

handleMouseUp ==
    /\ Budget
    /\ isDragging
    /\ isDragging' = FALSE
    /\ lastOp' = Op("mouseUp", selectedElement)
    /\ UNCHANGED <<templateType, addedKeys, currentLayout, layout, selectedElement, dragOffset,
                   customTextCount, customPhotoCount, customElements, customLabels>>

\* setLayout(prev => ...) of toggleVisibility / updateFontSize / updateImageSize
UpdateEntry(l, k, upd) == IF k \in DOMAIN l THEN SetEntry(l, k, Spread(l[k], upd)) ELSE l

toggleVisibility(k) ==
    /\ Budget
    /\ HasControl(k)
    /\ layout' = UpdateEntry(layout, k, [visible |-> ~IsVisible(EntryOrEmpty(layout, k))])
    /\ lastOp' = Op(IF IsVisible(layout[k]) THEN "hide" ELSE "show", k)
    /\ UNCHANGED <<templateType, addedKeys, currentLayout, selectedElement, isDragging, dragOffset,
                   customTextCount, customPhotoCount, customElements, customLabels>>

IsPhotoKey(k) == k \in {"image", "qrCode"} \cup {CustomPhotoKey(n) : n \in 1..(MaxOps + 1)}

updateFontSize(k, fontSize) ==
    /\ Budget
    /\ HasControl(k) /\ "fontSize" \in DOMAIN layout[k] /\ IsVisible(layout[k])
    /\ layout' = UpdateEntry(layout, k, [fontSize |-> fontSize])
    /\ lastOp' = Op("fontSize", k)
    /\ UNCHANGED <<templateType, addedKeys, currentLayout, selectedElement, isDragging, dragOffset,
                   customTextCount, customPhotoCount, customElements, customLabels>>

updateImageSize(k, width) ==
    /\ Budget
    /\ HasControl(k) /\ IsPhotoKey(k) /\ IsVisible(layout[k])
    /\ layout' = UpdateEntry(layout, k, [width |-> width])
    /\ lastOp' = Op("width", k)
    /\ UNCHANGED <<templateType, addedKeys, currentLayout, selectedElement, isDragging, dragOffset,
                   customTextCount, customPhotoCount, customElements, customLabels>>

addNewTextElement ==
    /\ Budget
    /\ LET newCount == customTextCount + 1
           newKey == CustomTextKey(newCount)
       IN /\ customTextCount' = newCount
          /\ layout' = SetEntry(layout, newKey,
                                [x |-> 50, y |-> 50 + ((newCount - 1) * 8), fontSize |-> 14,
                                 textAlign |-> "center", visible |-> TRUE])
          /\ customElements' = Append(customElements, newKey)
          /\ addedKeys' = addedKeys \cup {newKey}
          /\ lastOp' = Op("addText", newKey)
    /\ UNCHANGED <<templateType, currentLayout, selectedElement, isDragging, dragOffset,
                   customPhotoCount, customLabels>>

addNewPhotoElement ==
    /\ Budget
    /\ LET newCount == customPhotoCount + 1
           newKey == CustomPhotoKey(newCount)
       IN /\ customPhotoCount' = newCount
          /\ layout' = SetEntry(layout, newKey,
                                [x |-> 30 + ((newCount - 1) * 15), y |-> 60, width |-> 15,
                                 visible |-> TRUE])
          /\ customElements' = Append(customElements, newKey)
          /\ addedKeys' = addedKeys \cup {newKey}
          /\ lastOp' = Op("addPhoto", newKey)
    /\ UNCHANGED <<templateType, currentLayout, selectedElement, isDragging, dragOffset,
                   customTextCount, customLabels>>

\* a reset of the layout alone
handleResetLayoutOnly ==
    /\ Budget
    /\ layout' = DEFAULT_LAYOUTS(templateType)
    /\ lastOp' = Op("reset", NoKey)
    /\ UNCHANGED <<templateType, addedKeys, currentLayout, selectedElement, isDragging, dragOffset,
                   customTextCount, customPhotoCount, customElements, customLabels>>

handleReset ==
    /\ Budget
    /\ layout' = DEFAULT_LAYOUTS(templateType)
    /\ customTextCount' = 0
    /\ customPhotoCount' = 0
    /\ customElements' = <<>>
    /\ customLabels' = <<>>
    /\ lastOp' = Op("reset", NoKey)
    /\ UNCHANGED <<templateType, addedKeys, currentLayout, selectedElement, isDragging, dragOffset>>

\* the "Remove element" button of renderElementControl
removeElement(k) ==
    /\ Budget
    /\ HasControl(k)
    /\ layout' = RemoveFromLayout(layout, k)
    /\ customElements' = SelectSeq(customElements, LAMBDA e : e # k)
    /\ customLabels' = DeleteEntry(customLabels, k)
    /\ lastOp' = Op("remove", k)
    /\ UNCHANGED <<templateType, addedKeys, currentLayout, selectedElement, isDragging, dragOffset,
                   customTextCount, customPhotoCount>>

\* the label input's onBlur in renderElementControl (el.label is the catalog
\* label of the element: the ELEMENTS label or "Text N" / "Image N")
renameElement(k, text) ==
    /\ Budget
    /\ HasControl(k)
    /\ customLabels' = IF trim(text) # <<>> /\ trim(text) # ElementCatalogLabel(k)
                       THEN SetEntry(customLabels, k, trim(text))
                       ELSE DeleteEntry(customLabels, k)
    /\ lastOp' = Op("rename", k)
    /\ UNCHANGED <<templateType, addedKeys, currentLayout, layout, selectedElement, isDragging,
                   dragOffset, customTextCount, customPhotoCount, customElements>>

\* handleSave: onSaveLayout(layout)
handleSave ==
    /\ Budget
    /\ currentLayout' = layout
    /\ lastOp' = Op("save", NoKey)
    /\ UNCHANGED <<templateType, addedKeys, layout, selectedElement, isDragging, dragOffset,
                   customTextCount, customPhotoCount, customElements, customLabels>>

EditorOnly == UNCHANGED <<resolveVars, importVars, parseVars, restVars>>

MouseDown == EditorOnly /\ \E k \in UserKeys, p \in PointerDown : handleMouseDown(k, p)
MouseMove == EditorOnly /\ \E p \in PointerMove : handleMouseMove(p)
MouseUp == EditorOnly /\ handleMouseUp
ToggleVisibility == EditorOnly /\ \E k \in UserKeys : toggleVisibility(k)
UpdateFontSize == EditorOnly /\ \E k \in UserKeys, f \in FontSizes : updateFontSize(k, f)
UpdateImageSize == EditorOnly /\ \E k \in UserKeys, w \in ImageSizes : updateImageSize(k, w)
AddText == EditorOnly /\ addNewTextElement
AddPhoto == EditorOnly /\ addNewPhotoElement
Reset == EditorOnly /\ handleReset
Remove == EditorOnly /\ \E k \in UserKeys : removeElement(k)
Rename == EditorOnly /\ \E k \in UserKeys, t \in RenameTexts : renameElement(k, t)
Save == EditorOnly /\ handleSave

NextEditor ==
    \/ MouseDown \/ MouseMove \/ MouseUp \/ ToggleVisibility \/ UpdateFontSize
    \/ UpdateImageSize \/ AddText \/ AddPhoto \/ Reset \/ Remove \/ Rename \/ Save

SpecEditor == InitEditor /\ [][NextEditor]_vars

\* IDCard.renderCustomLayoutCard: the entries of the card's layout whose
\* visible is truthy are the ones painted
Painted(cardLayout, k) == k \in DOMAIN cardLayout /\ IsVisible(cardLayout[k])

\* C4: remove deletes the layout entry; hide keeps the entry with
\* visible = false and every other attribute, show sets visible = true again;
\* the card paints a key only when its entry exists with visible true, so a
\* removed key is not painted once the layout is handed to the card
C4_Step ==
    LET k == lastOp'.key IN
    /\ lastOp'.op = "remove" => k \notin DOMAIN layout'
    /\ lastOp'.op = "hide" =>
           /\ k \in DOMAIN layout /\ k \in DOMAIN layout'
           /\ layout'[k] = [layout[k] EXCEPT !.visible = FALSE]
    /\ lastOp'.op = "show" =>
           /\ k \in DOMAIN layout /\ k \in DOMAIN layout'
           /\ layout'[k] = Spread(layout[k], [visible |-> TRUE])
    /\ (lastOp.op = "hide" /\ lastOp'.op = "show" /\ lastOp.key = k) =>
           layout'[k].visible = TRUE
    /\ lastOp'.op \in {"hide", "show"} =>
           \A q \in (DOMAIN layout \cup DOMAIN layout') \ {k} :
               q \in DOMAIN layout /\ q \in DOMAIN layout' /\ layout'[q] = layout[q]
    /\ \A q \in UserKeys \cup DOMAIN currentLayout' :
           Painted(currentLayout', q) =>
               (q \in DOMAIN currentLayout' /\ "visible" \in DOMAIN currentLayout'[q]
                /\ currentLayout'[q].visible = TRUE)
    /\ (lastOp.op = "remove" /\ lastOp'.op = "save") =>
           ~Painted(currentLayout', lastOp.key)

C4_RemoveIsNotHide == [][C4_Step]_vars

\* C4 witness: name was removed and the layout handed to the card, which
\* does not paint it, while the hidden image is still an entry
C4_Witness ==
    /\ lastOp.op = "save"
    /\ "name" \notin DOMAIN currentLayout
    /\ "image" \in DOMAIN currentLayout
    /\ currentLayout["image"] = [DEFAULT_LAYOUTS(templateType)["image"] EXCEPT !.visible = FALSE]
    /\ ~Painted(currentLayout, "image")
    /\ Painted(currentLayout, "company")

\* the coordinates the last pointer move wrote
Dragged == lastOp.op = "mouseMove" /\ lastOp.key \in DOMAIN layout
DraggedX == layout[lastOp.key].x
DraggedY == layout[lastOp.key].y

\* C5 as stated: every coordinate a drag writes is an even integer in [5, 95]
C5_DragWithin5To95 ==
    Dragged => /\ DraggedX \in 5..95 /\ DraggedX % 2 = 0
               /\ DraggedY \in 5..95 /\ DraggedY % 2 = 0

\* C5 amended: every coordinate a drag writes is an even integer in [6, 96]
C5_DragWithin6To96 ==
    Dragged => /\ DraggedX \in 6..96 /\ DraggedX % 2 = 0
               /\ DraggedY \in 6..96 /\ DraggedY % 2 = 0

\* C5 witness: a drag beyond the left and the lower edge wrote 6 and 96
C5_Witness ==
    /\ Dragged
    /\ lastOp.rawX < 5 * CanvasWidth /\ DraggedX = 6
    /\ lastOp.rawY > 95 * CanvasHeight /\ DraggedY = 96

\* the multiple of 2 nearest to raw clamped to [5, 95] (the upper on a tie);
\* raw is a numerator over size
NearestEvenOfClamped(v, raw, size) ==
    LET c == IF raw < 5 * size THEN 5 * size ELSE IF raw > 95 * size THEN 95 * size ELSE raw
    IN /\ v % 2 = 0
       /\ v * size - c <= size
       /\ c - v * size < size

\* C6: the committed position is snap(clamp(raw)) on each axis, the clamp
\* applied first; raw (3, 97) commits as (6, 96)
C6_ClampThenSnap ==
    Dragged =>
        /\ NearestEvenOfClamped(DraggedX, lastOp.rawX, CanvasWidth)
        /\ NearestEvenOfClamped(DraggedY, lastOp.rawY, CanvasHeight)
        /\ (lastOp.rawX = 3 * CanvasWidth /\ lastOp.rawY = 97 * CanvasHeight)
               => (DraggedX = 6 /\ DraggedY = 96)

\* C6 witness: the raw position (3, 97) was committed as (6, 96)
C6_Witness ==
    /\ Dragged
    /\ lastOp.rawX = 3 * CanvasWidth /\ lastOp.rawY = 97 * CanvasHeight
    /\ DraggedX = 6 /\ DraggedY = 96

\* C6 witness of a tie and of a fraction: raw (7, 6.5) commits as (8, 6)
C6_WitnessTie ==
    /\ Dragged
    /\ lastOp.rawX = 7 * CanvasWidth /\ 2 * lastOp.rawY = 13 * CanvasHeight
    /\ DraggedX = 8 /\ DraggedY = 6

----------------------------------------------------------------------------
(* Schema inference: the mapped-column parser of analyzeFileWithMistral    *)
(* and the fallback parser parseTSVData                                    *)

TextAda == <<"A", "d", "a">>
TextBob == <<"B", "o", "b">>
TextACME == <<"A", "C", "M", "E">>
TextOrg == <<"O", "r", "g">>
TextR1 == <<"R", "1">>
TextR2 == <<"R", "2">>
TextOne == <<"1">>
TextTwo == <<"2">>
TextVIP == <<"V", "I", "P">>
TextSpeaker == <<"S", "p", "e", "a", "k", "e", "r">>
TextUnknown == <<"U", "n", "k", "n", "o", "w", "n">>
TextSelf == <<"S", "e", "l", "f">>
TextSelfLower == <<"s", "e", "l", "f">>
TextStudentID == <<"S", "t", "u", "d", "e", "n", "t", " ", "I", "D">>
TextAuto == <<"A", "U", "T", "O", "_">>
TextGeneralEntry == <<"G", "e", "n", "e", "r", "a", "l", " ", "E", "n", "t", "r", "y">>
TextNA == <<"N", "/", "A">>
TextAtt == <<"a", "t", "t", "-">>
TextSlNo == <<"S", "L", ".", " ", "N", "O", ".">>
TextWorkshopHeader == <<"o", "n", "l", "y", " ", "w", "o", "r", "k", "s", "h", "o", "p", " ", "p", "a", "s", "s", "e", "s">>
TextWorkshopLine == <<"O", "n", "l", "y", " ", "W", "o", "r", "k", "s", "h", "o", "p", " ", "P", "a", "s", "s", "e", "s">>
TextSpeakerLower == <<"s", "p", "e", "a", "k", "e", "r">>
TextOrganizerLower == <<"o", "r", "g", "a", "n", "i", "z", "e", "r">>
TextTeacherLower == <<"t", "e", "a", "c", "h", "e", "r">>
TextStudentLower == <<"s", "t", "u", "d", "e", "n", "t">>
EducationWords ==
    {<<"g", "r", "a", "d", "e">>,
     <<"g", "p", "a">>,
     <<"c", "l", "a", "s", "s">>,
     <<"s", "t", "u", "d", "e", "n", "t">>,
     <<"s", "c", "h", "o", "o", "l">>,
     <<"u", "n", "i", "v", "e", "r", "s", "i", "t", "y">>,
     <<"a", "g", "e">>}
IsDigit(c) == c \in {"0", "1", "2", "3", "4", "5", "6", "7", "8", "9"}

\* template-literal rendering of a non-negative number
RECURSIVE NumText(_)
NumText(n) == IF n < 10 THEN <<ToString(n)>> ELSE NumText(n \div 10) \o <<ToString(n % 10)>>

\* a || b on strings
OrElse(a, b) == IF a # <<>> THEN a ELSE b

TrimAll(pieces) == [i \in 1..Len(pieces) |-> trim(pieces[i])]

\* line.includes('\t') ? '\t' : ','
delimiter(line) == IF includesChar(line, "\t") THEN "\t" ELSE ","

\* fileContent.split('\n').filter(l => l.trim())
lines(fileContent) == SelectSeq(split(fileContent, "\n"), LAMBDA l : trim(l) # <<>>)

headerLine(fileContent) ==
    IF lines(fileContent) = <<>> THEN <<>> ELSE lines(fileContent)[1]

headerColumns(fileContent) ==
    TrimAll(split(headerLine(fileContent), delimiter(headerLine(fileContent))))

\* lines.slice(1)
dataLines(fileContent) ==
    IF lines(fileContent) = <<>> THEN <<>> ELSE Tail(lines(fileContent))

\* the cells of one data line: trimmed, split at the line's own delimiter
columns(dataLine) ==
    LET line == trim(dataLine) IN TrimAll(split(line, delimiter(line)))

FewerThanTwoColumns(cols) == Len(cols) < 2

\* if (columns.length < 3) continue
TooFewColumns(cols) == Len(cols) < 3

pickOneBased(cols, idx) ==
    IF idx >= 1 /\ idx <= Len(cols) /\ cols[idx] # <<>> THEN cols[idx] ELSE <<>>

\* pick(idx): idx is 0-based, -1 (or an absent mapping field) picks nothing
pick(cols, idx) ==
    IF idx >= 0 /\ idx + 1 <= Len(cols) /\ cols[idx + 1] # <<>> THEN cols[idx + 1] ELSE <<>>

\* columnMapping.<field>: a field missing from the mapping is undefined, which
\* pick treats like -1
mapped(mapping, f) == IF f \in DOMAIN mapping THEN mapping[f] ELSE -1

\* columnMapping.tracks / columnMapping.extras when Array.isArray, else nothing
mappedList(mapping, f) == IF f \in DOMAIN mapping THEN mapping[f] ELSE <<>>

\* tracks from the mapped track columns
RECURSIVE tracksOf(_, _)
tracksOf(cols, trackCols) ==
    IF trackCols = <<>> THEN <<>>
    ELSE LET trackValue == pick(cols, Head(trackCols))
         IN (IF trackValue # <<>> /\ toLowerCase(trackValue) # TextNameLower
             THEN <<trackValue>> ELSE <<>>) \o tracksOf(cols, Tail(trackCols))

roleOf(cols, mapping) ==
    LET lowerRole == toLowerCase(pick(cols, mapped(mapping, "role")))
    IN IF includes(lowerRole, TextSpeakerLower) THEN "Speaker"
       ELSE IF includes(lowerRole, TextOrganizerLower) THEN "Organizer"
       ELSE IF includes(lowerRole, TextTeacherLower) THEN "Teacher"
       ELSE IF includes(lowerRole, TextStudentLower) THEN "Student"
       ELSE "Attendee"

PutExtraKeepFirst(obj, key, value) ==
    IF HasKey(obj, key) THEN obj ELSE Append(obj, <<key, value>>)

\* extras[label] = value on an insertion-ordered object
PutExtra(obj, key, value) ==
    IF HasKey(obj, key)
    THEN [i \in 1..Len(obj) |-> IF obj[i][1] = key THEN <<key, value>> ELSE obj[i]]
    ELSE Append(obj, <<key, value>>)

\* columnMapping.extras.forEach(...): the classifier's own extras
RECURSIVE ClassifierExtras(_, _, _)
ClassifierExtras(extras, list, cols) ==
    IF list = <<>> THEN extras
    ELSE LET label == Head(list).label
             value == pick(cols, Head(list).index)
         IN ClassifierExtras(IF label # <<>> /\ value # <<>>
                             THEN PutExtra(extras, label, value) ELSE extras,
                             Tail(list), cols)

\* headerColumns.forEach((label, idx) => ...): every header column's value
RECURSIVE HeaderExtras(_, _, _, _)
HeaderExtras(extras, hdr, idx, cols) ==
    IF idx >= Len(hdr) THEN extras
    ELSE LET value == pick(cols, idx)
         IN HeaderExtras(IF trim(value) # <<>>
                         THEN PutExtra(extras, hdr[idx + 1], value) ELSE extras,
                         hdr, idx + 1, cols)

educationHeaders(hdr) ==
    \E i \in 1..Len(hdr) : \E w \in EducationWords : includes(toLowerCase(hdr[i]), w)

templateOf(cols, mapping, hdr, passType, role) ==
    LET schoolHints == {f \in {"schoolId", "schoolName", "fatherName", "motherName",
                                "className", "section", "dateOfBirth",
                                "emergencyContact", "address"} :
                            pick(cols, mapped(mapping, f)) # <<>>}
        passIsStudent == includes(toLowerCase(passType), TextStudentLower)
        roleIsStudent == role \in {"Student", "Teacher"}
        hasSchoolSignals == schoolHints # {} \/ passIsStudent \/ roleIsStudent
        companyValue == pick(cols, mapped(mapping, "company"))
        hasCorporateSignals == /\ ~hasSchoolSignals
                               /\ companyValue # <<>>
                               /\ toLowerCase(companyValue) # TextSelfLower
    IN IF hasSchoolSignals \/ educationHeaders(hdr) THEN "school-classic"
       ELSE IF hasCorporateSignals THEN "company-id"
       ELSE "conference"

\* the record pushed for data line i (0-based)
RowRecord(cols, i, mapping, hdr) ==
    LET at(f) == pick(cols, mapped(mapping, f))
        passType == OrElse(at("passType"), TextStudentID)
        role == roleOf(cols, mapping)
    IN [name |-> OrElse(at("name"), TextUnknown),
        company |-> OrElse(at("company"), OrElse(at("schoolName"), TextSelf)),
        passType |-> passType,
        registrationId |-> OrElse(at("registrationId"),
                                  OrElse(at("schoolId"),
                                         OrElse(at("id"), TextAuto \o NumText(i + 1)))),
        role |-> role,
        tracks |-> tracksOf(cols, mappedList(mapping, "tracks")),
        schoolId |-> at("schoolId"),
        schoolName |-> at("schoolName"),
        fatherName |-> at("fatherName"),
        motherName |-> at("motherName"),
        dateOfBirth |-> at("dateOfBirth"),
        contactNumber |-> at("contactNumber"),
        address |-> at("address"),
        className |-> at("className"),
        section |-> at("section"),
        emergencyContact |-> at("emergencyContact"),
        extras |-> HeaderExtras(ClassifierExtras(<<>>, mappedList(mapping, "extras"), cols),
                                hdr, 0, cols),
        template |-> templateOf(cols, mapping, hdr, passType, role)]

\* the loop over dataLines
RECURSIVE ParseRows(_, _, _, _)
ParseRows(rows, i, mapping, hdr) ==
    IF i >= Len(rows) THEN <<>>
    ELSE LET cols == columns(rows[i + 1])
         IN (IF trim(rows[i + 1]) = <<>> \/ TooFewColumns(cols) THEN <<>>
             ELSE <<RowRecord(cols, i, mapping, hdr)>>)
            \o ParseRows(rows, i + 1, mapping, hdr)

\* a null mapping (the content "null" parses as JSON) makes the first read of
\* columnMapping.name throw; the catch block rethrows
ParserThrows(fileContent, mapping) ==
    /\ mapping.isNull
    /\ \E i \in 1..Len(dataLines(fileContent)) :
           ~TooFewColumns(columns(dataLines(fileContent)[i]))

\* analyzeFileWithMistral from the parsed mapping on
parseWithMapping(fileContent, mapping) ==
    IF ParserThrows(fileContent, mapping)
    THEN [threw |-> TRUE, records |-> <<>>]
    ELSE [threw |-> FALSE,
          records |-> ParseRows(dataLines(fileContent), 0, mapping,
                                headerColumns(fileContent))]

\* /^\d+\t/
MatchesSerial(s) ==
    \E n \in 1..(Len(s) - 1) : (\A k \in 1..n : IsDigit(s[k])) /\ s[n + 1] = "\t"

\* columns.slice(4).filter(c => c && c.trim() !== '')
rawPassData(cols) == SelectSeq(SubSeq(cols, 5, Len(cols)), LAMBDA c : trim(c) # <<>>)

fallbackRole(tracks) ==
    IF \E i \in 1..Len(tracks) : includes(toLowerCase(tracks[i]), TextSpeakerLower)
    THEN "Speaker"
    ELSE IF \E i \in 1..Len(tracks) : includes(toLowerCase(tracks[i]), TextOrganizerLower)
    THEN "Organizer"
    ELSE "Attendee"

\* lines.forEach((line, index) => ...) of parseTSVData; index is 0-based
RECURSIVE ParseTSVLines(_, _, _)
ParseTSVLines(all, index, startProcessing) ==
    IF index >= Len(all) THEN <<>>
    ELSE LET line == all[index + 1]
             cleanLine == trim(line)
             cols == split(line, "\t")
             name == trim(cols[3])
             pass == rawPassData(cols)
         IN IF cleanLine = <<>> THEN ParseTSVLines(all, index + 1, startProcessing)
            ELSE IF startsWith(toUpperCase(cleanLine), TextSlNo)
            THEN ParseTSVLines(all, index + 1, TRUE)
            ELSE IF ~startProcessing /\ ~MatchesSerial(cleanLine)
            THEN ParseTSVLines(all, index + 1, FALSE)
            ELSE IF \/ includes(toLowerCase(cleanLine), TextWorkshopHeader)
                    \/ Len(cols) < 4
                    \/ name = <<>>
                    \/ name = TextNameUpper
            THEN ParseTSVLines(all, index + 1, TRUE)
            ELSE <<[id |-> TextAtt \o NumText(index),
                    registrationId |-> OrElse(trim(cols[2]), TextNA),
                    name |-> name,
                    company |-> trim(cols[4]),
                    passType |-> IF pass = <<>> THEN TextGeneralEntry ELSE pass[1],
                    tracks |-> IF pass = <<>> THEN <<>> ELSE Tail(pass),
                    role |-> fallbackRole(IF pass = <<>> THEN <<>> ELSE Tail(pass))]>>
                 \o ParseTSVLines(all, index + 1, TRUE)

parseTSVData(text) == ParseTSVLines(split(text, "\n"), 0, FALSE)

\* ---- inputs of the parser check ----
MaxRows == 2

CsvRow(cells) == join(cells, ",")
TsvRow(cells) == join(cells, "\t")

ParseHeaders ==
    {CsvRow(<<TextName, TextOrg, TextID>>),
     CsvRow(<<TextName, TextName, TextID>>),
     TsvRow(<<TextSlNo, TextID, TextName, TextOrg>>)}

ParseLines ==
    {CsvRow(<<TextAda, TextACME, TextR1>>),
     CsvRow(<<TextBob, <<>>, TextR2>>),
     CsvRow(<<TextAda, TextR1>>),
     TsvRow(<<TextOne, TextR1, TextAda, TextACME>>),
     TsvRow(<<TextTwo, <<>>, TextBob, TextACME, TextVIP, TextSpeaker>>),
     TextWorkshopLine,
     <<" ">>}

ParseBodies == UNION {[1..n -> ParseLines] : n \in 0..MaxRows}

\* a file with a header line, and the same file without one
ParseFiles ==
    {join(b, "\n") : b \in ParseBodies}
        \cup {join(<<h>> \o b, "\n") : h \in ParseHeaders, b \in ParseBodies}

NullMapping == [isNull |-> TRUE]

\* the classifier's answers: a mapping for the comma layout whose own extras
\* disagree with the header, one for the tab layout, one mapping nothing, and
\* the JSON value null
CsvMapping ==
    [isNull |-> FALSE, name |-> 0, company |-> 1, schoolName |-> -1, passType |-> -1,
     registrationId |-> 2, schoolId |-> -1, role |-> -1, tracks |-> <<>>,
     extras |-> <<[label |-> TextName, index |-> 1], [label |-> TextX, index |-> 2]>>]

TsvMapping ==
    [isNull |-> FALSE, name |-> 2, company |-> 3, schoolName |-> -1, passType |-> 4,
     registrationId |-> 1, schoolId |-> -1, role |-> 5, tracks |-> <<4, 5>>,
     extras |-> <<>>]

EmptyMapping ==
    [isNull |-> FALSE, name |-> -1, company |-> -1, schoolName |-> -1, passType |-> -1,
     registrationId |-> -1, schoolId |-> -1, role |-> -1, tracks |-> <<>>,
     extras |-> <<>>]

ParseMappings == {CsvMapping, TsvMapping, EmptyMapping, NullMapping}

InitParse ==
    /\ pFile \in ParseFiles
    /\ pSelectedTemplate = "none"
    /\ pMapping \in ParseMappings
    /\ pParsed = [done |-> FALSE, threw |-> FALSE, records |-> <<>>]
    /\ pFallback = [done |-> FALSE, records |-> <<>>]
    /\ ResolveIdle
    /\ EditorIdle
    /\ ImportIdle
    /\ RestIdle

\* the mapped-column parser runs on the file with the classifier's mapping;
\* selectedTemplate only words the classifier's prompt, the rows never read it
Analyze ==
    /\ ~pParsed.done
    /\ pParsed' = [done |-> TRUE,
                   threw |-> parseWithMapping(pFile, pMapping).threw,
                   records |-> parseWithMapping(pFile, pMapping).records]
    /\ UNCHANGED <<pFile, pSelectedTemplate, pMapping, pFallback, resolveVars,
                   editorVars, importVars, restVars>>

\* the fallback parser runs on the same file
ParseTSV ==
    /\ ~pFallback.done
    /\ pFallback' = [done |-> TRUE, records |-> parseTSVData(pFile)]
    /\ UNCHANGED <<pFile, pSelectedTemplate, pMapping, pParsed, resolveVars,
                   editorVars, importVars, restVars>>

NextParse == Analyze \/ ParseTSV

SpecParse == InitParse /\ [][NextParse]_vars

\* ---- the rows of the parsed file, as the claims speak of them ----

\* number of separators in a trimmed line: tabs if it has a tab, else commas
SeparatorCount(line) ==
    LET t == trim(line)
    IN IF \E i \in 1..Len(t) : t[i] = "\t"
       THEN Cardinality({i \in 1..Len(t) : t[i] = "\t"})
       ELSE Cardinality({i \in 1..Len(t) : t[i] = ","})

\* data lines holding at least 3 cells, in file order
KeptRows(fileContent) ==
    SelectSeq(dataLines(fileContent), LAMBDA l : SeparatorCount(l) + 1 >= 3)

\* the cell of header column j (1-based) in a data line, empty when absent
Cell(dataLine, j) ==
    IF j >= 1 /\ j <= Len(columns(dataLine)) THEN columns(dataLine)[j] ELSE <<>>

PHeader == headerColumns(pFile)
PRecords == pParsed.records
PParsedOk == pParsed.done /\ ~pParsed.threw /\ Len(PRecords) = Len(KeptRows(pFile))

\* the columns that bear the same header text as column j and are non-empty
\* in the row
SameHeaderFilled(row, j) ==
    {q \in 1..Len(PHeader) : PHeader[q] = PHeader[j] /\ Cell(row, q) # <<>>}

C1_WitnessRepeatedHeader ==
    /\ PParsedOk
    /\ PHeader = <<TextName, TextName, TextID>>
    /\ \E k \in 1..Len(PRecords) :
           /\ Cell(KeptRows(pFile)[k], 1) = TextAda
           /\ Cell(KeptRows(pFile)[k], 2) = TextACME
           /\ Lookup(PRecords[k].extras, TextName) = TextACME

\* the lines of the file as parseTSVData numbers them (0-based)
PAllLines == split(pFile, "\n")
PLine(index) == PAllLines[index + 1]

\* a row the fallback parser is meant for: serial digits, then at least three
\* more tab-separated cells, a name, and no section-header text
WellFormedTsvRow(line) ==
    LET cols == split(line, "\t")
    IN /\ Len(cols) >= 4
       /\ cols[1] # <<>> /\ \A i \in 1..Len(cols[1]) : IsDigit(cols[1][i])
       /\ trim(cols[3]) # <<>> /\ trim(cols[3]) # TextNameUpper
       /\ ~includes(toLowerCase(line), TextWorkshopHeader)

\* C10: neither parser throws on a malformed file; the mapped-column parser
\* drops exactly the data rows with fewer than 3 cells and keeps every other
\* row's record in place; the fallback parser, with or without a header row,
\* keeps every well-formed row's record and makes no record from a line with
\* fewer than 4 tab-separated cells
C10_MalformedRowsDropped ==
    /\ (pParsed.done /\ ~pMapping.isNull) =>
           /\ ~pParsed.threw
           /\ Len(PRecords) = Len(KeptRows(pFile))
           /\ \A k \in 1..Len(PRecords) :
                  PRecords[k].name
                      = OrElse(Cell(KeptRows(pFile)[k], pMapping.name + 1), TextUnknown)
    /\ pFallback.done =>
           /\ \A index \in 0..(Len(PAllLines) - 1) :
                  WellFormedTsvRow(PLine(index)) =>
                      \E r \in SeqRange(pFallback.records) :
                          /\ r.id = TextAtt \o NumText(index)
                          /\ r.name = trim(split(PLine(index), "\t")[3])
           /\ \A r \in SeqRange(pFallback.records) :
                  \E index \in 0..(Len(PAllLines) - 1) :
                      /\ r.id = TextAtt \o NumText(index)
                      /\ Len(split(PLine(index), "\t")) >= 4

\* C10 witness: a file with a tab header, a well-formed row and a two-cell
\* row; both parsers ran and each kept exactly the well-formed row
C10_Witness ==
    /\ pParsed.done /\ ~pMapping.isNull /\ ~pParsed.threw
    /\ pFallback.done
    /\ Len(dataLines(pFile)) = 2
    /\ \E i \in 1..2 : dataLines(pFile)[i] = CsvRow(<<TextAda, TextR1>>)
    /\ Len(PRecords) = 1
    /\ Len(pFallback.records) = 1

\* C10 witness of a file without a header row: the fallback parser starts at
\* the first serial-numbered line
C10_WitnessNoHeader ==
    /\ pFallback.done
    /\ Len(PAllLines) = 2
    /\ PAllLines[1] = TextWorkshopLine
    /\ WellFormedTsvRow(PAllLines[2])
    /\ Len(pFallback.records) = 1

----------------------------------------------------------------------------
(* Import: handleFileUpload, the merge, the server's replace-all import    *)

MaxImports == 2

CsvHeader == CsvRow(<<TextName, TextOrg, TextID>>)

\* uploaded files: comma files in both row orders, with a repeated
\* registration id, with a two-cell row, and a tab file with a marker header
ImportFiles ==
    {join(<<CsvHeader, CsvRow(<<TextAda, TextACME, TextR1>>),
            CsvRow(<<TextBob, <<>>, TextR2>>)>>, "\n"),
     join(<<CsvHeader, CsvRow(<<TextBob, <<>>, TextR2>>),
            CsvRow(<<TextAda, TextACME, TextR1>>)>>, "\n"),
     join(<<CsvHeader, CsvRow(<<TextAda, TextACME, TextR1>>),
            CsvRow(<<TextBob, TextACME, TextR1>>)>>, "\n"),
     join(<<CsvHeader, CsvRow(<<TextAda, TextR1>>),
            CsvRow(<<TextBob, <<>>, TextR2>>)>>, "\n"),
     join(<<TsvRow(<<TextSlNo, TextID, TextName, TextOrg>>),
            TsvRow(<<TextOne, TextR1, TextAda, TextACME>>),
            TsvRow(<<TextTwo, <<>>, TextBob, TextACME, TextVIP, TextSpeaker>>)>>, "\n")}

ImportMappings == {CsvMapping, EmptyMapping, NullMapping}

\* the ways the inference step fails before a mapping is parsed
InferenceFailures == {"missingKey", "network", "httpError", "noContent", "badJson"}

\* a field of a record that may lack it
Field(a, f) == IF f \in DOMAIN a THEN a[f] ELSE Undefined

\* parsedData.map((item, index) => ...): index is 0-based, stamp stands for
\* Date.now(); the parser's extras bag is the record's extra-field bag
toAttendee(item, stamp, index) ==
    [id |-> TextAtt \o NumText(stamp) \o <<"-">> \o NumText(index),
     name |-> item.name,
     company |-> item.company,
     passType |-> item.passType,
     registrationId |-> item.registrationId,
     role |-> item.role,
     tracks |-> item.tracks,
     schoolId |-> OrElse(item.schoolId, item.registrationId),
     className |-> OrElse(item.className, item.passType),
     extraFields |-> item.extras]

attendeeDataOf(parsed, stamp) ==
    [k \in 1..Len(parsed) |-> toAttendee(parsed[k], stamp, k - 1)]

\* record.registrationId || record.id
KeyOf(record) == OrElse(record.registrationId, record.id)

addToMapFront(mergedMap, record) ==
    IF HasKey(mergedMap, KeyOf(record))
    THEN [i \in 1..Len(mergedMap) |->
             IF mergedMap[i][1] = KeyOf(record) THEN <<KeyOf(record), record>>
             ELSE mergedMap[i]]
    ELSE <<<<KeyOf(record), record>>>> \o mergedMap

\* mergedMap.set(key, {...record}) on an insertion-ordered Map
addToMap(mergedMap, record) ==
    IF HasKey(mergedMap, KeyOf(record))
    THEN [i \in 1..Len(mergedMap) |->
             IF mergedMap[i][1] = KeyOf(record) THEN <<KeyOf(record), record>>
             ELSE mergedMap[i]]
    ELSE Append(mergedMap, <<KeyOf(record), record>>)

RECURSIVE addAll(_, _)
addAll(mergedMap, records) ==
    IF records = <<>> THEN mergedMap
    ELSE addAll(addToMap(mergedMap, Head(records)), Tail(records))

\* attendees.forEach(addToMap); attendeeData.forEach(addToMap);
\* Array.from(mergedMap.values())
mergeAttendees(existing, attendeeData) ==
    LET mergedMap == addAll(addAll(<<>>, existing), attendeeData)
    IN [i \in 1..Len(mergedMap) |-> mergedMap[i][2]]

\* the server's extras column for a record: empty and absent fields are deleted
buildExtrasPayload(a) ==
    [schoolId |-> IF Truthy(Field(a, "schoolId")) THEN a.schoolId ELSE Undefined,
     className |-> IF Truthy(Field(a, "className")) THEN a.className ELSE Undefined,
     extraFields |-> IF "extraFields" \in DOMAIN a THEN a.extraFields ELSE <<>>]

\* the row inserted for one record of the request
toStoreRow(a) ==
    LET row == [id |-> a.id,
                registration_id |-> a.registrationId,
                name |-> a.name,
                company |-> a.company,
                pass_type |-> a.passType,
                role |-> a.role,
                tracks |-> a.tracks,
                extras |-> buildExtrasPayload(a)]
    IN \* image: a.image || null, a NULL column being a row without the field
       IF "image" \in DOMAIN a THEN Spread(row, [image |-> a.image]) ELSE row

\* DELETE FROM attendees, then one insert per item
replaceAll(items) == [i \in 1..Len(items) |-> toStoreRow(items[i])]

toAttendeeResponse(row) ==
    LET a == [id |-> row.id,
              registrationId |-> row.registration_id,
              name |-> row.name,
              company |-> row.company,
              passType |-> row.pass_type,
              role |-> row.role,
              tracks |-> row.tracks,
              schoolId |-> IF Truthy(row.extras.schoolId) THEN row.extras.schoolId
                           ELSE row.registration_id,
              className |-> row.extras.className,
              extraFields |-> row.extras.extraFields]
    IN \* image: row.image
       IF "image" \in DOMAIN row THEN Spread(a, [image |-> row.image]) ELSE a

\* GET /api/attendees
fetchAttendees(rows) == [i \in 1..Len(rows) |-> toAttendeeResponse(rows[i])]

RemoveAt(s, j) == SubSeq(s, 1, j - 1) \o SubSeq(s, j + 1, Len(s))

ImportOnly == UNCHANGED <<resolveVars, editorVars, parseVars, restVars>>

InitImport ==
    /\ ImportIdle
    /\ RestIdle
    /\ ResolveIdle
    /\ EditorIdle
    /\ ParseIdle

\* the change event of the file input (disabled while the busy flag is set),
\* up to the first await
StartImport(f) ==
    /\ pc = "idle"
    /\ ~isProcessingFile
    /\ importNo < MaxImports
    /\ isProcessingFile' = TRUE
    /\ file' = f
    /\ before' = attendees
    /\ importNo' = importNo + 1
    /\ aiOutcome' = "pending"
    /\ columnMapping' = NullMapping
    /\ parsedData' = <<>>
    /\ mergedList' = <<>>
    /\ pc' = "analyzing"
    /\ UNCHANGED <<attendees, store, fallbackJobs>>

CatchAbort(kind) ==
    /\ fallbackJobs' = fallbackJobs
    /\ isProcessingFile' = FALSE
    /\ pc' = "idle"
    /\ aiOutcome' = kind

\* the catch block starts the fallback read of the same file, then the
\* finally block clears the busy flag
CatchFallback(kind) ==
    /\ fallbackJobs' = Append(fallbackJobs, [stage |-> "reading", file |-> file,
                                              parsed |-> <<>>])
    /\ isProcessingFile' = FALSE
    /\ pc' = "idle"
    /\ aiOutcome' = kind

\* analyzeFileWithMistral rejects before a mapping exists
AnalyzeFails(kind) ==
    /\ pc = "analyzing"
    /\ CatchFallback(kind)
    /\ UNCHANGED <<attendees, store, file, columnMapping, parsedData, importNo,
                   before, mergedList>>

\* the classifier answered with mapping m: rows are parsed, converted and
\* merged, and the import request is sent; a throw in the row loop is caught
AnalyzeReturns(m) ==
    /\ pc = "analyzing"
    /\ columnMapping' = m
    /\ IF parseWithMapping(file, m).threw
       THEN /\ CatchFallback("parserThrew")
            /\ UNCHANGED <<parsedData, mergedList>>
       ELSE /\ parsedData' = parseWithMapping(file, m).records
            /\ mergedList' = mergeAttendees(before,
                   attendeeDataOf(parseWithMapping(file, m).records, importNo))
            /\ pc' = "importing"
            /\ UNCHANGED <<fallbackJobs, isProcessingFile, aiOutcome>>
    /\ UNCHANGED <<attendees, store, file, importNo, before>>

\* POST /api/attendees/import succeeded; setAttendees(mergedList)
ImportStored ==
    /\ pc = "importing"
    /\ store' = replaceAll(mergedList)
    /\ attendees' = mergedList
    /\ pc' = "loading"
    /\ UNCHANGED <<isProcessingFile, file, aiOutcome, columnMapping, parsedData,
                   importNo, before, mergedList, fallbackJobs>>

\* the import request failed: caught like an inference failure
ImportRejected ==
    /\ pc = "importing"
    /\ CatchFallback("importRejected")
    /\ UNCHANGED <<attendees, store, file, columnMapping, parsedData, importNo,
                   before, mergedList>>

\* loadAttendees (which swallows its own failure), then the finally block
LoadAttendees(ok) ==
    /\ pc = "loading"
    /\ attendees' = IF ok THEN fetchAttendees(store) ELSE attendees
    /\ isProcessingFile' = FALSE
    /\ aiOutcome' = "ok"
    /\ pc' = "idle"
    /\ UNCHANGED <<store, file, columnMapping, parsedData, importNo, before,
                   mergedList, fallbackJobs>>

\* reader.onload: the file text goes through parseTSVData and the result is
\* sent to the import endpoint
FallbackRead(j) ==
    /\ fallbackJobs[j].stage = "reading"
    /\ fallbackJobs' = [fallbackJobs EXCEPT ![j] =
                            [stage |-> "importing", file |-> @.file,
                             parsed |-> parseTSVData(@.file)]]
    /\ UNCHANGED <<attendees, store, isProcessingFile, pc, file, aiOutcome,
                   columnMapping, parsedData, importNo, before, mergedList>>

\* the fallback's import request succeeded; setAttendees(parsed)
FallbackStored(j) ==
    /\ fallbackJobs[j].stage = "importing"
    /\ store' = replaceAll(fallbackJobs[j].parsed)
    /\ attendees' = fallbackJobs[j].parsed
    /\ fallbackJobs' = RemoveAt(fallbackJobs, j)
    /\ UNCHANGED <<isProcessingFile, pc, file, aiOutcome, columnMapping, parsedData,
                   importNo, before, mergedList>>

\* the fallback's import request failed: logged, nothing stored
FallbackRejected(j) ==
    /\ fallbackJobs[j].stage = "importing"
    /\ fallbackJobs' = RemoveAt(fallbackJobs, j)
    /\ UNCHANGED <<attendees, store, isProcessingFile, pc, file, aiOutcome,
                   columnMapping, parsedData, importNo, before, mergedList>>

Start == (\E f \in ImportFiles : StartImport(f)) /\ ImportOnly
InferenceFails == (\E kind \in InferenceFailures : AnalyzeFails(kind)) /\ ImportOnly
InferenceReturns == (\E m \in ImportMappings : AnalyzeReturns(m)) /\ ImportOnly
Stored == ImportStored /\ ImportOnly
Rejected == ImportRejected /\ ImportOnly
Load == (\E ok \in BOOLEAN : LoadAttendees(ok)) /\ ImportOnly
ReadFallback == (\E j \in 1..Len(fallbackJobs) : FallbackRead(j)) /\ ImportOnly
StoreFallback == (\E j \in 1..Len(fallbackJobs) : FallbackStored(j)) /\ ImportOnly
RejectFallback == (\E j \in 1..Len(fallbackJobs) : FallbackRejected(j)) /\ ImportOnly

NextImport ==
    \/ Start
    \/ InferenceFails
    \/ InferenceReturns
    \/ Stored
    \/ Rejected
    \/ Load
    \/ ReadFallback
    \/ StoreFallback
    \/ RejectFallback

SpecImport == InitImport /\ [][NextImport]_vars

\* ---- the rows of the uploaded file, as the claims speak of them ----

\* 1-based positions in dataLines of the rows holding at least 3 cells
KeptIndices(fileContent) ==
    SelectSeq([i \in 1..Len(dataLines(fileContent)) |-> i],
              LAMBDA i : SeparatorCount(dataLines(fileContent)[i]) + 1 >= 3)

\* the handler has merged the records of the current import
HasMerged == pc \in {"importing", "loading"}

\* the record the current import made of output index k (1-based)
ImportedId(k) == TextAtt \o NumText(importNo) \o <<"-">> \o NumText(k - 1)
InMerged(k) == \E p \in 1..Len(mergedList) : mergedList[p].id = ImportedId(k)
PositionInMerged(k) == CHOOSE p \in 1..Len(mergedList) : mergedList[p].id = ImportedId(k)

\* the parser's output lists the kept rows in file order
ParserKeepsRowOrder ==
    /\ Len(parsedData) = Len(KeptIndices(file))
    /\ \A k \in 1..Len(parsedData) :
           parsedData[k] = RowRecord(columns(dataLines(file)[KeptIndices(file)[k]]),
                                     KeptIndices(file)[k] - 1, columnMapping,
                                     headerColumns(file))

\* C7 as stated: the parser's output and the merged collection both keep
\* the source row order of every two rows that yield records
C7_RowOrderKept ==
    HasMerged =>
        /\ ParserKeepsRowOrder
        /\ \A a, b \in 1..Len(parsedData) :
               a < b => /\ InMerged(a)
                        /\ InMerged(b)
                        /\ PositionInMerged(a) < PositionInMerged(b)

RowKey(k) == parsedData[k].registrationId
KeyIsNew(k) ==
    /\ \A p \in 1..Len(before) : KeyOf(before[p]) # RowKey(k)
    /\ \A q \in 1..(k - 1) : RowKey(q) # RowKey(k)
KeyNotRepeatedLater(k) == \A q \in (k + 1)..Len(parsedData) : RowKey(q) # RowKey(k)

\* C7 (amended): the parser's output keeps source row order; in the merged
\* collection a's record precedes b's record when no later row repeats the
\* registration id of a or of b and the registration id of b occurs neither in
\* an existing record nor in an earlier row
C7_RowOrderKeptForNewKeys ==
    HasMerged =>
        /\ ParserKeepsRowOrder
        /\ \A a, b \in 1..Len(parsedData) :
               (a < b /\ KeyNotRepeatedLater(a) /\ KeyNotRepeatedLater(b) /\ KeyIsNew(b))
                   => /\ InMerged(a)
                      /\ InMerged(b)
                      /\ PositionInMerged(a) < PositionInMerged(b)

\* C7 witness: the second import's first row updates an existing record in
\* place and its second row is new; the two records are in row order
C7_Witness ==
    /\ HasMerged
    /\ before # <<>>
    /\ Len(parsedData) = 2
    /\ ~KeyIsNew(1) /\ KeyNotRepeatedLater(1) /\ KeyIsNew(2)
    /\ InMerged(1) /\ InMerged(2)
    /\ PositionInMerged(1) < PositionInMerged(2)

\* C7 witness of a dropped row: the file's first data row has two cells, the
\* only record is the one of the second data row
C7_WitnessDroppedRow ==
    /\ HasMerged
    /\ Len(dataLines(file)) = 2
    /\ KeptIndices(file) = <<2>>
    /\ Len(parsedData) = 1
    /\ InMerged(1)

\* a step that ends the handler's run in the catch block
EndsInCatch == pc # "idle" /\ pc' = "idle" /\ aiOutcome' # "ok"

C8_Step ==
    /\ (pc = "analyzing" /\ pc' = "idle") => aiOutcome' \in InferenceFailures \cup {"parserThrew"}
    /\ EndsInCatch =>
           /\ fallbackJobs' = Append(fallbackJobs,
                  [stage |-> "reading", file |-> file, parsed |-> <<>>])
           /\ file' = file
    /\ \A j \in 1..Len(fallbackJobs) :
           (/\ Len(fallbackJobs') = Len(fallbackJobs)
            /\ fallbackJobs[j].stage = "reading"
            /\ fallbackJobs'[j].stage # "reading")
               => /\ fallbackJobs'[j].file = fallbackJobs[j].file
                  /\ fallbackJobs'[j].parsed = parseTSVData(fallbackJobs[j].file)
    /\ (pc # "idle" /\ pc' = "idle") => ~isProcessingFile'

\* C8: every failure of the inference step hands the same file to the
\* fallback parser instead of ending the import, and whenever the handler
\* has ended, on the success path or in the catch block, the busy flag is clear
C8_FailureFallsBack ==
    /\ [](pc = "idle" => ~isProcessingFile)
    /\ [][C8_Step]_vars

\* C8 witness: the classifier's response was not parseable, the handler has
\* ended with the busy flag clear, and the fallback parser has run on the
\* uploaded file and found its rows
C8_Witness ==
    /\ aiOutcome = "badJson"
    /\ pc = "idle"
    /\ ~isProcessingFile
    /\ \E j \in 1..Len(fallbackJobs) :
           /\ fallbackJobs[j].stage = "importing"
           /\ fallbackJobs[j].file = file
           /\ Len(fallbackJobs[j].parsed) = 2

\* C9 as stated: the fallback import loses nothing; every stored record is
\* still stored after it, and every data row of the file with at least 3
\* cells has a stored record
C9_Step ==
    \A j \in 1..Len(fallbackJobs) :
        (fallbackJobs' = RemoveAt(fallbackJobs, j) /\ store' # store) =>
            /\ \A p \in 1..Len(store) :
                   \E q \in 1..Len(store') : store'[q].id = store[p].id
            /\ Len(store') >= Len(KeptIndices(fallbackJobs[j].file))

C9_FallbackLosesNothing == [][C9_Step]_vars

----------------------------------------------------------------------------
(* The records of the mapped-column parser: fields and archetype           *)

TextRole == <<"R", "o", "l", "e">>
TextStage == <<"S", "t", "a", "g", "e">>
TextOrganizer == <<"O", "r", "g", "a", "n", "i", "z", "e", "r">>
TextStudent == <<"S", "t", "u", "d", "e", "n", "t">>
TextTeacher == <<"T", "e", "a", "c", "h", "e", "r">>
TextAttendee == <<"A", "t", "t", "e", "n", "d", "e", "e">>

RecordHeaders ==
    {CsvRow(<<TextName, TextOrg, TextRole>>),
     CsvRow(<<TextName, TextStage, TextRole>>)}

\* rows of three cells: a speaker, an organizer without organization, a
\* student whose organization is Self, and a row with padded cells
RecordLines ==
    {CsvRow(<<TextAda, TextACME, TextSpeaker>>),
     CsvRow(<<TextBob, <<>>, TextOrganizer>>),
     CsvRow(<<TextBob, TextSelf, TextStudent>>),
     CsvRow(<<TextAda, <<" ">> \o TextACME \o <<" ">>, TextVIP>>)}

RecordFiles ==
    {join(<<h>> \o b, "\n") :
        h \in RecordHeaders, b \in UNION {[1..n -> RecordLines] : n \in 0..MaxRows}}

\* mappings that leave fields out, point beyond the row, or map the third
\* column as pass type or the second as a guardian name
ExampleMapping == [isNull |-> FALSE, name |-> 0, company |-> 1, role |-> 2]
PassMapping == [isNull |-> FALSE, name |-> 0, company |-> 1, passType |-> 2]
GuardianMapping == [isNull |-> FALSE, name |-> 0, fatherName |-> 1, passType |-> 2]
FarMapping == [isNull |-> FALSE, name |-> 0, company |-> 7, passType |-> -1, role |-> 5]

RecordMappings == {ExampleMapping, PassMapping, GuardianMapping, FarMapping}

SelectableTemplates == {"none", "conference", "school-classic", "company-id"}

InitRecords ==
    /\ pFile \in RecordFiles
    /\ pSelectedTemplate \in SelectableTemplates
    /\ pMapping \in RecordMappings
    /\ pParsed = [done |-> FALSE, threw |-> FALSE, records |-> <<>>]
    /\ pFallback = [done |-> FALSE, records |-> <<>>]
    /\ ResolveIdle
    /\ EditorIdle
    /\ ImportIdle
    /\ RestIdle

SpecRecords == InitRecords /\ [][NextParse]_vars

\* the cell a mapping assigns to a field in the k-th kept row
PRow(k) == KeptRows(pFile)[k]
PCell(k, f) == Cell(PRow(k), mapped(pMapping, f) + 1)

RoleText(r) ==
    CASE r = "Speaker" -> TextSpeaker
      [] r = "Organizer" -> TextOrganizer
      [] r = "Teacher" -> TextTeacher
      [] r = "Student" -> TextStudent
      [] OTHER -> TextAttendee

RoleWords == <<"Speaker", "Organizer", "Teacher", "Student">>
SaysRole(k, w) == includes(toLowerCase(PCell(k, "role")), toLowerCase(RoleText(RoleWords[w])))

TheExampleFile ==
    join(<<CsvRow(<<TextName, TextOrg, TextRole>>),
           CsvRow(<<TextAda, TextACME, TextSpeaker>>),
           CsvRow(<<TextBob, <<>>, TextOrganizer>>)>>, "\n")

C11_WitnessBeyondRow ==
    /\ pParsed.done /\ ~pParsed.threw
    /\ pMapping = FarMapping
    /\ \E k \in 1..Len(PRecords) :
           /\ PRow(k) = CsvRow(<<TextAda, <<" ">> \o TextACME \o <<" ">>, TextVIP>>)
           /\ PRecords[k].company = TextSelf
           /\ PRecords[k].role = "Attendee"

\* C12 as stated: an archetype passed by the caller is the archetype of
\* every returned record
C12_ExplicitArchetypeWins ==
    (pParsed.done /\ pSelectedTemplate # "none") =>
        \A k \in 1..Len(PRecords) : PRecords[k].template = pSelectedTemplate

\* the signals the classification is stated in, read from the row's cells
GuardianLike(k) ==
    \E f \in {"fatherName", "motherName", "className", "section", "dateOfBirth"} :
        PCell(k, f) # <<>>
StudentLike(k) ==
    \/ includes(toLowerCase(PCell(k, "passType")), TextStudentLower)
    \/ includes(toLowerCase(PCell(k, "role")), TextStudentLower)
IsSchoolRow(k) == GuardianLike(k) \/ StudentLike(k)
IsEmployeeRow(k) ==
    /\ ~IsSchoolRow(k)
    /\ PCell(k, "company") # <<>>
    /\ toLowerCase(PCell(k, "company")) # TextSelfLower

\* C13 as stated: without a pinned archetype a row is school iff it has a
\* guardian/class/DOB-like field or a student pass type or role, else employee
\* iff its organization is non-empty and not self, else conference; a row
\* without a pass-type value has no student signal from the pass type
C13_Classification ==
    (pParsed.done /\ pSelectedTemplate = "none") =>
        \A k \in 1..Len(PRecords) :
            PRecords[k].template =
                IF IsSchoolRow(k) THEN "school-classic"
                ELSE IF IsEmployeeRow(k) THEN "company-id"
                ELSE "conference"

\* ---------------------------------------------------------------------------
\* Custom element keys and reset (TemplateEditor.tsx 302-351)
\* ---------------------------------------------------------------------------

IsAdd(op) == op.op \in {"addText", "addPhoto"}

\* C14: within one editing session an add of a custom text or photo never
\* yields a key that an earlier add of the session yielded (also after a
\* removal or a reset), never a key that the layout being edited already
\* holds, and so never overwrites an existing layout entry.
C14_AddYieldsFreshKey ==
    [][(opCount' # opCount /\ IsAdd(lastOp')) =>
           /\ lastOp'.key \notin addedKeys
           /\ lastOp'.key \notin DOMAIN layout]_vars

IsCustomKey(k) ==
    k \in {CustomTextKey(n) : n \in 1..(MaxOps + 1)} \cup {CustomPhotoKey(n) : n \in 1..(MaxOps + 1)}

\* C15: after a reset to default, whatever edits preceded it, the layout is
\* the built-in default layout of the active archetype, the custom-label map
\* is empty and no custom element remains, in the list or in the layout.
C15_ResetRestoresDefault ==
    lastOp.op = "reset" =>
        /\ layout = DEFAULT_LAYOUTS(templateType)
        /\ customLabels = <<>>
        /\ customElements = <<>>
        /\ \A k \in DOMAIN layout : ~IsCustomKey(k)

\* a reset that follows an add in a session opened on a saved template
C15_Witness ==
    /\ lastOp.op = "reset"
    /\ addedKeys # {}
    /\ currentLayout # DEFAULT_LAYOUTS(templateType)

\* ---------------------------------------------------------------------------
\* Saved templates: the saved_templates table and /api/templates (part_003)
\* ---------------------------------------------------------------------------

MaxTemplates == 2
MaxRequests == 3

\* req.user, the payload of a verified bearer token
Users ==
    {[id |-> 1, username |-> "admin", role |-> "admin"],
     [id |-> 2, username |-> "asha", role |-> "user"]}

\* JSON text of one layout value. The fields of an element position are
\* numbers (x, y, width, height, fontSize: non-negative integers here), the
\* boolean visible and the string textAlign; a number is written in decimal
\* digits, a boolean as true / false, a string between quotes.
NumberFields == {"x", "y", "width", "height", "fontSize"}

TextTrue == <<"t", "r", "u", "e">>
TextFalse == <<"f", "a", "l", "s", "e">>

JsonValue(f, v) ==
    IF f \in NumberFields THEN NumText(v)
    ELSE IF f = "visible" THEN (IF v THEN TextTrue ELSE TextFalse)
    ELSE <<"\"", v, "\"">>

DigitValue(c) == CHOOSE d \in 0..9 : ToString(d) = c

RECURSIVE ParseNumber(_)
ParseNumber(text) ==
    IF Len(text) = 0 THEN 0
    ELSE ParseNumber(SubSeq(text, 1, Len(text) - 1)) * 10 + DigitValue(text[Len(text)])

ParseValue(f, text) ==
    IF f \in NumberFields THEN ParseNumber(text)
    ELSE IF f = "visible" THEN text = TextTrue
    ELSE text[2]

\* a JSON.stringify that writes the catalogue's elements only
stringifyBuiltIn(l) ==
    [k \in {q \in DOMAIN l : ~IsCustomKey(q)} |->
        [f \in DOMAIN l[k] |-> JsonValue(f, l[k][f])]]

\* JSON.stringify(layout): every own key of the layout, every field of its entry
JSONstringify(l) ==
    [k \in DOMAIN l |-> [f \in DOMAIN l[k] |-> JsonValue(f, l[k][f])]]

\* JSON.parse(row.layout)
JSONparse(text) ==
    [k \in DOMAIN text |-> [f \in DOMAIN text[k] |-> ParseValue(f, text[k][f])]]

\* a nullable TEXT column: NULL, or the JSON text of an object whose values
\* are strings (the theme, the custom labels), which holds them as they are
NullText == [null |-> TRUE]
JsonText(obj) == [null |-> FALSE, text |-> obj]

Has(body, f) == f \in DOMAIN body

\* a || b on the strings of a request body
Or(body, f, default) == IF Has(body, f) /\ body[f] # "" THEN body[f] ELSE default

\* `tpl-${Date.now()}-${random}`: a fresh id on every insert
TemplateId(n) == "tpl-" \o ToString(n)

\* visibility === 'public' ? 'public' : 'private'
visibilityOf(body) ==
    IF Has(body, "visibility") /\ body.visibility = "public" THEN "public" ELSE "private"

\* a visibility column that stores the request's value as sent
visibilityAsSent(body) ==
    IF Has(body, "visibility") THEN body.visibility ELSE "private"

\* the INSERT of POST /api/templates
NewRow(u, body, n, t) ==
    [id |-> TemplateId(n),
     user_id |-> u.id,
     name |-> body.name,
     icon |-> Or(body, "icon", "default"),
     base_template |-> Or(body, "baseTemplate", "conference"),
     layout |-> JSONstringify(body.layout),
     theme |-> IF Has(body, "theme") THEN JsonText(body.theme) ELSE NullText,
     custom_labels |-> IF Has(body, "customLabels") THEN JsonText(body.customLabels)
                       ELSE NullText,
     visibility |-> visibilityOf(body),
     created_at |-> t,
     updated_at |-> t]

\* WHERE id = ? AND user_id = ? with any signed-in user as the requester
OwnedByAnyone(row, id, u) == row.id = id

\* WHERE id = ? AND user_id = ?
OwnedBy(row, id, u) == row.id = id /\ row.user_id = u.id

\* the UPDATE of PATCH /api/templates/:id: COALESCE(?, column) keeps the
\* column when the parameter is NULL, which is what an absent field binds as
UpdatedRow(row, body, t) ==
    [row EXCEPT
        !.name = IF Has(body, "name") THEN body.name ELSE @,
        !.icon = IF Has(body, "icon") THEN body.icon ELSE @,
        !.layout = IF Has(body, "layout") THEN JSONstringify(body.layout) ELSE @,
        !.theme = IF Has(body, "theme") THEN JsonText(body.theme) ELSE @,
        !.custom_labels = IF Has(body, "customLabels") THEN JsonText(body.customLabels) ELSE @,
        !.updated_at = t]

\* WHERE st.user_id = ? OR st.visibility = 'public', for every requester
VisibleToAll(row, u) == TRUE

\* WHERE st.user_id = ? OR st.visibility = 'public'
VisibleTo(row, u) == row.user_id = u.id \/ row.visibility = "public"

\* LEFT JOIN users u ON st.user_id = u.id
OwnerName(row) == (CHOOSE o \in Users : o.id = row.user_id).username

\* rows.map(row => ({ ... })) of GET /api/templates
TemplateResponse(row, u) ==
    [id |-> row.id,
     name |-> row.name,
     icon |-> IF row.icon # "" THEN row.icon ELSE "default",
     baseTemplate |-> row.base_template,
     layout |-> JSONparse(row.layout),
     theme |-> row.theme,
     customLabels |-> IF row.custom_labels.null THEN JsonText(<<>>) ELSE row.custom_labels,
     visibility |-> IF row.visibility # "" THEN row.visibility ELSE "private",
     isOwner |-> row.user_id = u.id,
     ownerName |-> OwnerName(row),
     createdAt |-> row.created_at,
     updatedAt |-> row.updated_at]

\* ORDER BY st.updated_at DESC: any order of the rows in which no row comes
\* before a row updated later
Listings(rows) ==
    LET n == Len(rows)
        orders == {p \in [1..n -> 1..n] :
                      /\ \A i, j \in 1..n : p[i] = p[j] => i = j
                      /\ \A i, j \in 1..n :
                            i < j => rows[p[i]].updated_at >= rows[p[j]].updated_at}
    IN {[i \in 1..n |-> rows[p[i]]] : p \in orders}

\* CURRENT_TIMESTAMP of a write: the second of the previous write, or a later one
Timestamps == {tNow, tNow + 1}

Request == tRequests < MaxRequests /\ tRequests' = tRequests + 1

\* app.get('/api/templates', authMiddleware, ...)
listTemplates(u) ==
    /\ Request
    /\ \E rows \in Listings(SelectSeq(savedTemplates, LAMBDA row : VisibleTo(row, u))) :
          tResponse' = [op |-> "list", user |-> u.id, status |-> 200,
                        body |-> [i \in 1..Len(rows) |-> TemplateResponse(rows[i], u)]]
    /\ UNCHANGED <<savedTemplates, tNow, tNextId, tLastWrite>>

\* app.post('/api/templates', authMiddleware, ...)
postTemplate(u, body, t) ==
    /\ Request
    /\ Len(savedTemplates) < MaxTemplates
    /\ IF ~(Has(body, "name") /\ body.name # <<>>) \/ ~Has(body, "layout")
       THEN /\ tResponse' = [op |-> "save", user |-> u.id, status |-> 400,
                             id |-> "none", sent |-> body,
                             message |-> "Name and layout are required"]
            /\ UNCHANGED <<savedTemplates, tNow, tNextId, tLastWrite>>
       ELSE /\ savedTemplates' = Append(savedTemplates, NewRow(u, body, tNextId, t))
            /\ tNow' = t
            /\ tNextId' = tNextId + 1
            /\ tResponse' = [op |-> "save", user |-> u.id, status |-> 201,
                             id |-> TemplateId(tNextId), sent |-> body,
                             message |-> "Template saved successfully"]
            /\ tLastWrite' = [op |-> "save", user |-> u.id, id |-> TemplateId(tNextId),
                              hasLayout |-> TRUE, layout |-> body.layout]

\* app.patch('/api/templates/:id', authMiddleware, ...)
patchTemplate(u, id, body, t) ==
    /\ Request
    /\ IF \A i \in 1..Len(savedTemplates) : ~OwnedBy(savedTemplates[i], id, u)
       THEN /\ tResponse' = [op |-> "update", user |-> u.id, status |-> 404,
                             id |-> id, sent |-> body, message |-> "Template not found"]
            /\ UNCHANGED <<savedTemplates, tNow, tNextId, tLastWrite>>
       ELSE /\ savedTemplates' =
                  [i \in 1..Len(savedTemplates) |->
                      IF OwnedBy(savedTemplates[i], id, u)
                      THEN UpdatedRow(savedTemplates[i], body, t)
                      ELSE savedTemplates[i]]
            /\ tNow' = t
            /\ tResponse' = [op |-> "update", user |-> u.id, status |-> 200,
                             id |-> id, sent |-> body,
                             message |-> "Template updated successfully"]
            /\ tLastWrite' = [op |-> "update", user |-> u.id, id |-> id,
                              hasLayout |-> Has(body, "layout"),
                              layout |-> IF Has(body, "layout") THEN body.layout ELSE <<>>]
            /\ UNCHANGED tNextId

\* app.delete('/api/templates/:id', authMiddleware, ...)
deleteTemplate(u, id) ==
    /\ Request
    /\ IF \A i \in 1..Len(savedTemplates) : ~OwnedBy(savedTemplates[i], id, u)
       THEN /\ tResponse' = [op |-> "delete", user |-> u.id, status |-> 404,
                             id |-> id, message |-> "Template not found"]
            /\ UNCHANGED <<savedTemplates, tNow, tNextId, tLastWrite>>
       ELSE /\ savedTemplates' =
                  SelectSeq(savedTemplates, LAMBDA row : ~OwnedBy(row, id, u))
            /\ tResponse' = [op |-> "delete", user |-> u.id, status |-> 204,
                             id |-> id, message |-> ""]
            /\ tLastWrite' = [op |-> "delete", user |-> u.id, id |-> id,
                              hasLayout |-> FALSE, layout |-> <<>>]
            /\ UNCHANGED <<tNow, tNextId>>

\* authMiddleware without a valid bearer token: 401 before any handler runs
unauthorized(op) ==
    /\ Request
    /\ tResponse' = [op |-> op, user |-> 0, status |-> 401, message |-> "Unauthorized"]
    /\ UNCHANGED <<savedTemplates, tNow, tNextId, tLastWrite>>

\* request bodies
MottoLabels == "customText1" :> <<"M", "o", "t", "t", "o">>

SaveBodies ==
    {[name |-> TextOne, icon |-> "star", baseTemplate |-> "school-classic",
      layout |-> SavedLayout("school-classic"), theme |-> [id |-> "ocean"],
      customLabels |-> MottoLabels, visibility |-> "public"],
     [name |-> TextTwo, icon |-> "default", baseTemplate |-> "company-id",
      layout |-> HideEntry(DEFAULT_LAYOUTS("company-id"), "qrCode"),
      theme |-> [id |-> "grey"], customLabels |-> <<>>, visibility |-> "private"],
     [name |-> TextOrg, layout |-> DEFAULT_LAYOUTS("conference"), visibility |-> "team"],
     [name |-> TextACME, layout |-> <<>>],
     [name |-> <<>>, layout |-> DEFAULT_LAYOUTS("conference"), visibility |-> "public"],
     [name |-> TextAda, visibility |-> "public"]}

UpdateBodies ==
    {[layout |-> SavedLayout("conference"), theme |-> [id |-> "ocean"],
      customLabels |-> MottoLabels],
     [name |-> TextBob],
     [name |-> <<>>, icon |-> "crown", layout |-> DEFAULT_LAYOUTS("conference")]}

TemplateIds == {TemplateId(n) : n \in 1..MaxTemplates} \cup {"tpl-0"}

Operations == {"list", "save", "update", "delete"}

TemplatesOnly ==
    UNCHANGED <<resolveVars, editorVars, importVars, parseVars, saveVars, lateVars>>

InitTemplates ==
    /\ TemplateIdle
    /\ SaveIdle
    /\ LateIdle
    /\ ResolveIdle
    /\ EditorIdle
    /\ ImportIdle
    /\ ParseIdle

ListTemplates == TemplatesOnly /\ \E u \in Users : listTemplates(u)
PostTemplate ==
    TemplatesOnly /\ \E u \in Users, body \in SaveBodies, t \in Timestamps : postTemplate(u, body, t)
PatchTemplate ==
    TemplatesOnly /\ \E u \in Users, id \in TemplateIds, body \in UpdateBodies, t \in Timestamps :
                        patchTemplate(u, id, body, t)
DeleteTemplate == TemplatesOnly /\ \E u \in Users, id \in TemplateIds : deleteTemplate(u, id)
Unauthorized == TemplatesOnly /\ \E op \in Operations : unauthorized(op)

NextTemplates ==
    \/ ListTemplates \/ PostTemplate \/ PatchTemplate \/ DeleteTemplate \/ Unauthorized

SpecTemplates == InitTemplates /\ [][NextTemplates]_vars

\* the rows of the table as a set, and the entries of the last listing
StoredRows == {savedTemplates[i] : i \in 1..Len(savedTemplates)}
Listed == {tResponse.body[i] : i \in 1..Len(tResponse.body)}

\* a listing was answered (not refused by authMiddleware)
ListAnswered == tResponse.op = "list" /\ tResponse.status = 200

\* C16: a layout, custom element keys included, that was saved as a template
\* or written by an update comes back from the next listing with exactly the
\* same keys and, per key, the same x, y, visible, width, fontSize and
\* textAlign values.
C16_LayoutRoundTrip ==
    (ListAnswered /\ tLastWrite.op \in {"save", "update"} /\ tLastWrite.hasLayout) =>
        /\ tResponse.user = tLastWrite.user => \E e \in Listed : e.id = tLastWrite.id
        /\ \A e \in Listed : e.id = tLastWrite.id => e.layout = tLastWrite.layout

\* the owner lists after updating a template with a layout that holds
\* customText1 at (40, 60) with font size 18
C16_Witness ==
    /\ ListAnswered
    /\ tLastWrite.op = "update"
    /\ tLastWrite.hasLayout
    /\ \E e \in Listed :
          /\ e.id = tLastWrite.id
          /\ "customText1" \in DOMAIN e.layout
          /\ e.layout["customText1"].x = 40
          /\ e.layout["customText1"].y = 60
          /\ e.layout["customText1"].fontSize = 18

\* C17: a listing requested by user u returns exactly the stored templates
\* that u owns or that are public, each once; a template saved with any
\* visibility value other than 'public' is stored as private.
C17_ListIsOwnOrPublic ==
    /\ ListAnswered =>
          /\ {e.id : e \in Listed} =
                {row.id : row \in {r \in StoredRows :
                                      r.user_id = tResponse.user \/ r.visibility = "public"}}
          /\ Len(tResponse.body) = Cardinality({e.id : e \in Listed})
    /\ (tResponse.op = "save" /\ tResponse.status = 201) =>
          \A row \in StoredRows :
              row.id = tResponse.id =>
                  row.visibility =
                      IF "visibility" \in DOMAIN tResponse.sent
                         /\ tResponse.sent.visibility = "public"
                      THEN "public" ELSE "private"

\* a listing while the table holds a private and a public template of
\* another user
C17_Witness ==
    /\ ListAnswered
    /\ \E row \in StoredRows : row.user_id # tResponse.user /\ row.visibility = "private"
    /\ \E row \in StoredRows : row.user_id # tResponse.user /\ row.visibility = "public"

C17_WitnessOtherVisibility ==
    /\ tResponse.op = "save"
    /\ tResponse.status = 201
    /\ "visibility" \in DOMAIN tResponse.sent
    /\ tResponse.sent.visibility = "team"

C18_Step ==
    (tRequests' # tRequests /\ tResponse'.op \in {"update", "delete"} /\ tResponse'.user # 0) =>
        LET id == tResponse'.id
            owned == \E row \in StoredRows : row.id = id /\ row.user_id = tResponse'.user
            after == {savedTemplates'[i] : i \in 1..Len(savedTemplates')}
        IN IF ~owned
           THEN tResponse'.status >= 400 /\ savedTemplates' = savedTemplates
           ELSE /\ tResponse'.status < 300
                /\ tResponse'.op = "delete" => \A row \in after : row.id # id
                /\ tResponse'.op = "update" =>
                      \E row \in after :
                          /\ row.id = id
                          /\ "layout" \in DOMAIN tResponse'.sent =>
                                 JSONparse(row.layout) = tResponse'.sent.layout
                          /\ "name" \in DOMAIN tResponse'.sent => row.name = tResponse'.sent.name

\* C18: an update or delete of a saved template requested by a user who does
\* not own it (an admin included, a public template included) is answered
\* with an error and leaves the table as it was; requested by the owner it
\* takes effect.
C18_OnlyOwnerWrites == [][C18_Step]_vars

\* the admin was refused an update or delete of another user's public template
C18_Witness ==
    /\ tResponse.op \in {"update", "delete"}
    /\ tResponse.status = 404
    /\ tResponse.user = 1
    /\ \E row \in StoredRows : row.id = tResponse.id /\ row.visibility = "public"

C18_WitnessOwner ==
    /\ tResponse.op = "update"
    /\ tResponse.status = 200
    /\ "layout" \in DOMAIN tResponse.sent

\* ---------------------------------------------------------------------------
\* Saving from the editors: the template editor's save dialog
\* (TemplateEditor.tsx 353-440) and the record edit modal (EditModal.tsx 73-81,
\* App.tsx 596-733)
\* ---------------------------------------------------------------------------

MaxClicks == 4

NoUser == [id |-> 0]
NoAttendee == [none |-> TRUE]
Idle == [stage |-> "idle"]

\* localTheme, and the name of the saved template the editor was opened on
LocalTheme == [id |-> "ocean"]
EditingTemplateName == TextTwo

TemplateNames == {<<" ">>, TextOne}

TextNewAttendee == <<"N", "e", "w", " ", "A", "t", "t", "e", "n", "d", "e", "e">>
TextOrganization == <<"O", "r", "g", "a", "n", "i", "z", "a", "t", "i", "o", "n">>
TextManual == <<"m", "a", "n", "u", "a", "l", "-">>
TextAttManual == <<"a", "t", "t", "-", "m", "a", "n", "u", "a", "l", "-">>
TextDraft == <<"d", "r", "a", "f", "t", "-">>

Click == clicks < MaxClicks /\ clicks' = clicks + 1

\* alert(message)
Alert(from, message) == alerts' = Append(alerts, [from |-> from, message |-> message])

\* response.ok
IsOk(status) == status >= 200 /\ status <= 299

DialogOnly == UNCHANGED <<resolveVars, importVars, parseVars, modalVars, lateVars>>

\* the Save button under the element list
openSaveModal ==
    /\ Click
    /\ isOpen /\ ~showSaveModal
    /\ templateName' = IF editingTemplateId # "none" /\ EditingTemplateName # <<>>
                          /\ templateName = <<>>
                       THEN EditingTemplateName ELSE templateName
    /\ showSaveModal' = TRUE
    /\ UNCHANGED <<isOpen, templateVisibility, isSaving, editingTemplateId, token, saveCall,
                   alerts, editorVars, templateVars>>

\* the name input of the dialog
setTemplateName(n) ==
    /\ Click
    /\ isOpen /\ showSaveModal
    /\ templateName' = n
    /\ UNCHANGED <<isOpen, showSaveModal, templateVisibility, isSaving, editingTemplateId,
                   token, saveCall, alerts, editorVars, templateVars>>

\* the Private / Public buttons of the dialog
setTemplateVisibility(v) ==
    /\ Click
    /\ isOpen /\ showSaveModal
    /\ templateVisibility' = v
    /\ UNCHANGED <<isOpen, showSaveModal, templateName, isSaving, editingTemplateId,
                   token, saveCall, alerts, editorVars, templateVars>>

\* Cancel and the dialog's X: setShowSaveModal(false), also while a call is pending
cancelSaveModal ==
    /\ Click
    /\ isOpen /\ showSaveModal
    /\ showSaveModal' = FALSE
    /\ UNCHANGED <<isOpen, templateName, templateVisibility, isSaving, editingTemplateId,
                   token, saveCall, alerts, editorVars, templateVars>>

\* the editor's X and backdrop (covered while the dialog shows): onClose()
closeEditor ==
    /\ Click
    /\ isOpen /\ ~showSaveModal
    /\ isOpen' = FALSE
    /\ UNCHANGED <<showSaveModal, templateName, templateVisibility, isSaving,
                   editingTemplateId, token, saveCall, alerts, editorVars, templateVars>>

\* a save handler that hands the layout over before the call is answered
handleSaveAsTemplateEagerly ==
    /\ Click
    /\ isOpen /\ showSaveModal /\ ~isSaving
    /\ trim(templateName) # <<>>
    /\ isSaving' = TRUE
    /\ currentLayout' = layout
    /\ saveCall' = [stage |-> "sent", kind |-> "post", id |-> "none",
                    body |-> [name |-> trim(templateName), icon |-> "default",
                              baseTemplate |-> templateType, layout |-> layout,
                              theme |-> LocalTheme, customLabels |-> customLabels,
                              visibility |-> templateVisibility]]
    /\ UNCHANGED <<isOpen, showSaveModal, templateName, templateVisibility,
                   editingTemplateId, token, alerts, templateVars,
                   templateType, layout, selectedElement, isDragging, dragOffset,
                   customTextCount, customPhotoCount, addedKeys, customElements,
                   customLabels, lastOp, opCount>>

\* handleSaveAsTemplate up to the await of fetch (the button is disabled
\* while the name is blank or a call is pending)
handleSaveAsTemplate ==
    /\ Click
    /\ isOpen /\ showSaveModal /\ ~isSaving
    /\ trim(templateName) # <<>>
    /\ isSaving' = TRUE
    /\ saveCall' = [stage |-> "sent", kind |-> "post", id |-> "none",
                    body |-> [name |-> trim(templateName), icon |-> "default",
                              baseTemplate |-> templateType, layout |-> layout,
                              theme |-> LocalTheme, customLabels |-> customLabels,
                              visibility |-> templateVisibility]]
    /\ UNCHANGED <<isOpen, showSaveModal, templateName, templateVisibility,
                   editingTemplateId, token, alerts, editorVars, templateVars>>

\* handleUpdateExistingTemplate up to the await of fetch
handleUpdateExistingTemplate ==
    /\ Click
    /\ isOpen /\ showSaveModal /\ ~isSaving
    /\ editingTemplateId # "none"
    /\ isSaving' = TRUE
    /\ saveCall' = [stage |-> "sent", kind |-> "patch", id |-> editingTemplateId,
                    body |-> [layout |-> layout, theme |-> LocalTheme,
                              customLabels |-> customLabels]]
    /\ UNCHANGED <<isOpen, showSaveModal, templateName, templateVisibility,
                   editingTemplateId, token, alerts, editorVars, templateVars>>

\* the server answers the fetch: authMiddleware, then the route's handler
saveAnswered(t) ==
    /\ saveCall.stage = "sent"
    /\ IF token = NoUser
       THEN unauthorized(IF saveCall.kind = "post" THEN "save" ELSE "update")
       ELSE IF saveCall.kind = "post"
            THEN postTemplate(token, saveCall.body, t)
            ELSE patchTemplate(token, saveCall.id, saveCall.body, t)
    /\ saveCall' = [saveCall EXCEPT !.stage = "answered"]
    /\ UNCHANGED <<isOpen, showSaveModal, templateName, templateVisibility, isSaving,
                   editingTemplateId, token, alerts, clicks, editorVars>>

\* fetch rejects (the server was not reached): catch, then finally
saveRejected ==
    /\ saveCall.stage = "sent"
    /\ Alert("template", IF saveCall.kind = "post" THEN "Error saving template"
                         ELSE "Error updating template")
    /\ isSaving' = FALSE
    /\ saveCall' = Idle
    /\ UNCHANGED <<isOpen, showSaveModal, templateName, templateVisibility,
                   editingTemplateId, token, clicks, editorVars, templateVars>>

\* the code after await fetch: on response.ok the dialog closes,
\* handleSave() hands the layout of the click to the parent and closes the
\* editor, and finally clears the flag; otherwise the error body is awaited
saveResponded ==
    /\ saveCall.stage = "answered"
    /\ IF IsOk(tResponse.status)
       THEN /\ showSaveModal' = FALSE
            /\ templateName' = IF saveCall.kind = "post" THEN <<>> ELSE templateName
            /\ templateVisibility' = IF saveCall.kind = "post" THEN "private"
                                     ELSE templateVisibility
            /\ currentLayout' = saveCall.body.layout
            /\ isOpen' = FALSE
            /\ isSaving' = FALSE
            /\ saveCall' = Idle
       ELSE /\ saveCall' = [saveCall EXCEPT !.stage = "reading"]
            /\ UNCHANGED <<showSaveModal, templateName, templateVisibility, currentLayout,
                           isOpen, isSaving>>
    /\ UNCHANGED <<editingTemplateId, token, alerts, clicks, templateVars,
                   templateType, layout, selectedElement, isDragging, dragOffset,
                   customTextCount, customPhotoCount, addedKeys, customElements,
                   customLabels, lastOp, opCount>>

\* await response.json() of an error response, the alert, then finally;
\* a body that cannot be read lands in the catch block
saveErrorRead(ok) ==
    /\ saveCall.stage = "reading"
    /\ Alert("template",
             IF ok /\ tResponse.message # "" THEN tResponse.message
             ELSE IF ok THEN (IF saveCall.kind = "post" THEN "Failed to save template"
                              ELSE "Failed to update template")
             ELSE IF saveCall.kind = "post" THEN "Error saving template"
             ELSE "Error updating template")
    /\ isSaving' = FALSE
    /\ saveCall' = Idle
    /\ UNCHANGED <<isOpen, showSaveModal, templateName, templateVisibility,
                   editingTemplateId, token, clicks, editorVars, templateVars>>

\* ---- the record edit modal

ModalOnly ==
    UNCHANGED <<resolveVars, editorVars, parseVars, templateVars, dialogVars, lateVars>>

importRest == <<isProcessingFile, pc, file, aiOutcome, columnMapping, parsedData, importNo,
                before, mergedList, fallbackJobs>>

\* handleEditClick(attendee); the modal's effect copies the record into formData
handleEditClick(i) ==
    /\ Click
    /\ ~editModalOpen
    /\ editingAttendee' = attendees[i]
    /\ isBulkEdit' = FALSE
    /\ isCreatingNew' = FALSE
    /\ editModalOpen' = TRUE
    /\ formData' = attendees[i]
    /\ UNCHANGED <<selectedIds, editCall, alerts, attendees, store, importRest>>

\* the checkbox of a card
toggleSelection(i) ==
    /\ Click
    /\ ~editModalOpen
    /\ selectedIds' = IF attendees[i].id \in selectedIds
                      THEN selectedIds \ {attendees[i].id}
                      ELSE selectedIds \cup {attendees[i].id}
    /\ UNCHANGED <<editModalOpen, editingAttendee, isBulkEdit, isCreatingNew, formData,
                   editCall, alerts, attendees, store, importRest>>

\* handleBulkEditClick (the button shows while cards are selected)
handleBulkEditClick ==
    /\ Click
    /\ ~editModalOpen
    /\ selectedIds # {}
    /\ editingAttendee' = NoAttendee
    /\ isBulkEdit' = TRUE
    /\ isCreatingNew' = FALSE
    /\ editModalOpen' = TRUE
    /\ formData' = <<>>
    /\ UNCHANGED <<selectedIds, editCall, alerts, attendees, store, importRest>>

\* the draft of handleAddManualClick, with the fields an attendee has here;
\* stamp stands for Date.now()
Draft(stamp) ==
    [id |-> TextDraft \o NumText(stamp),
     name |-> <<>>,
     company |-> TextOrganization,
     passType |-> TextGeneralEntry,
     registrationId |-> <<>>,
     role |-> TextAttendee,
     tracks |-> <<>>,
     schoolId |-> <<>>,
     className |-> <<>>,
     extraFields |-> <<>>]

handleAddManualClick ==
    /\ Click
    /\ ~editModalOpen
    /\ editingAttendee' = Draft(clicks)
    /\ isBulkEdit' = FALSE
    /\ isCreatingNew' = TRUE
    /\ editModalOpen' = TRUE
    /\ formData' = Draft(clicks)
    /\ UNCHANGED <<selectedIds, editCall, alerts, attendees, store, importRest>>

\* handleChange('name', value)
handleChange(value) ==
    /\ Click
    /\ editModalOpen
    /\ formData' = Spread(formData, [name |-> value])
    /\ UNCHANGED <<editModalOpen, editingAttendee, isBulkEdit, isCreatingNew, selectedIds,
                   editCall, alerts, attendees, store, importRest>>

\* handleCloseModal: the modal's Cancel / X
handleCloseModal ==
    /\ Click
    /\ editModalOpen
    /\ editModalOpen' = FALSE
    /\ isCreatingNew' = FALSE
    /\ editingAttendee' = NoAttendee
    /\ UNCHANGED <<isBulkEdit, selectedIds, formData, editCall, alerts, attendees, store,
                   importRest>>

\* the branch handleSaveEdit takes
ModeOf(bulk, creating, editing) ==
    IF bulk THEN "bulk"
    ELSE IF creating /\ editing # NoAttendee THEN "create"
    ELSE IF editing # NoAttendee THEN "single"
    ELSE "none"

\* { ...formData, extraFields: { ...(formData.extraFields || {}) } }
SubmittedData ==
    Spread(formData,
           [extraFields |-> IF "extraFields" \in DOMAIN formData THEN formData.extraFields
                            ELSE <<>>])

\* a || b || c on strings
Or3(a, b, c) == OrElse(a, OrElse(b, c))

\* newAttendee of handleSaveEdit's create branch
NewAttendee(editing, updatedData, stamp) ==
    Spread(Spread(editing, updatedData),
           [id |-> TextAttManual \o NumText(stamp),
            registrationId |-> Or3(updatedData.registrationId, editing.registrationId,
                                   TextManual \o NumText(stamp)),
            name |-> OrElse(updatedData.name, TextNewAttendee),
            passType |-> Or3(updatedData.passType, editing.passType, TextGeneralEntry),
            company |-> Or3(updatedData.company, editing.company, TextOrganization),
            role |-> OrElse(updatedData.role, TextAttendee),
            tracks |-> updatedData.tracks,
            schoolId |-> Or3(updatedData.schoolId, updatedData.registrationId,
                             editing.registrationId)])

\* a submit that awaits the save before it closes the modal
handleSubmitThenWait ==
    /\ Click
    /\ editModalOpen
    /\ editCall.stage = "idle"
    /\ editCall' = [stage |-> "first",
                    mode |-> ModeOf(isBulkEdit, isCreatingNew, editingAttendee),
                    data |-> SubmittedData,
                    target |-> editingAttendee,
                    ids |-> selectedIds,
                    list |-> attendees,
                    stamp |-> clicks]
    /\ UNCHANGED <<editModalOpen, isCreatingNew, editingAttendee, isBulkEdit,
                   selectedIds, formData, alerts, attendees, store, importRest>>

\* EditModal.handleSubmit: onSave(...) runs handleSaveEdit up to its first
\* await, then onClose() runs handleCloseModal. One save is in flight at a time.
handleSubmit ==
    /\ Click
    /\ editModalOpen
    /\ editCall.stage = "idle"
    /\ editCall' = [stage |-> "first",
                    mode |-> ModeOf(isBulkEdit, isCreatingNew, editingAttendee),
                    data |-> SubmittedData,
                    target |-> editingAttendee,
                    ids |-> selectedIds,
                    list |-> attendees,
                    stamp |-> clicks]
    /\ editModalOpen' = FALSE
    /\ isCreatingNew' = FALSE
    /\ editingAttendee' = NoAttendee
    /\ UNCHANGED <<isBulkEdit, selectedIds, formData, alerts, attendees, store, importRest>>

\* UPDATE attendees SET column = COALESCE(@field, column): the columns of
\* the row take the fields the payload holds (payload.extras is not among
\* what the modal sends)
PatchedRow(row, payload) ==
    [row EXCEPT
        !.registration_id = IF Has(payload, "registrationId") THEN payload.registrationId ELSE @,
        !.name = IF Has(payload, "name") THEN payload.name ELSE @,
        !.company = IF Has(payload, "company") THEN payload.company ELSE @,
        !.pass_type = IF Has(payload, "passType") THEN payload.passType ELSE @,
        !.role = IF Has(payload, "role") THEN payload.role ELSE @,
        !.tracks = IF Has(payload, "tracks") THEN payload.tracks ELSE @]

PatchRows(rows, ids, payload) ==
    [i \in 1..Len(rows) |-> IF rows[i].id \in ids THEN PatchedRow(rows[i], payload)
                            ELSE rows[i]]

\* the first awaited call of handleSaveEdit settles: the request of the
\* branch taken, then either the code up to the next await or, on a failure
\* (a network error, or 401 for a token that is no longer valid), the catch
\* block and finally
saveEditSettled(reached) ==
    /\ editCall.stage = "first"
    /\ IF reached /\ token # NoUser
       THEN /\ UNCHANGED alerts
            /\ IF editCall.mode = "create"
               THEN LET merged == Append(editCall.list,
                                     NewAttendee(editCall.target, editCall.data,
                                                 editCall.stamp))
                    IN /\ store' = replaceAll(merged)
                       /\ attendees' = merged
                       /\ editCall' = Idle
                       /\ isCreatingNew' = FALSE
                       /\ UNCHANGED selectedIds
               ELSE /\ store' = PatchRows(store,
                                    IF editCall.mode = "bulk" THEN editCall.ids
                                    ELSE {editCall.target.id}, editCall.data)
                    /\ selectedIds' = IF editCall.mode = "bulk" THEN {} ELSE selectedIds
                    /\ editCall' = [editCall EXCEPT !.stage = "reload"]
                    /\ UNCHANGED <<attendees, isCreatingNew>>
       ELSE /\ Alert("record", "Failed to save changes.")
            /\ isCreatingNew' = FALSE
            /\ editCall' = Idle
            /\ UNCHANGED <<store, attendees, selectedIds>>
    /\ UNCHANGED <<editModalOpen, editingAttendee, isBulkEdit, formData, clicks, importRest>>

\* await loadAttendees() (it catches its own failure), then finally
saveEditReloaded(ok) ==
    /\ editCall.stage = "reload"
    /\ attendees' = IF ok THEN fetchAttendees(store) ELSE attendees
    /\ isCreatingNew' = FALSE
    /\ editCall' = Idle
    /\ UNCHANGED <<editModalOpen, editingAttendee, isBulkEdit, selectedIds, formData,
                   alerts, clicks, store, importRest>>

\* ---- the session

\* the records on screen: the example file, imported and stored
ImportedRecords ==
    attendeeDataOf(parseWithMapping(TheExampleFile, ExampleMapping).records, 1)

\* the saved template the editor may have been opened on
EditedTemplate(owner) ==
    NewRow(owner,
           [name |-> EditingTemplateName, icon |-> "default", baseTemplate |-> "conference",
            layout |-> DEFAULT_LAYOUTS("conference"), theme |-> LocalTheme,
            customLabels |-> <<>>, visibility |-> "public"],
           1, 0)

InitSave ==
    /\ templateType = "conference"
    /\ currentLayout = DEFAULT_LAYOUTS(templateType)
    /\ layout = currentLayout
    /\ selectedElement = NoKey
    /\ isDragging = FALSE
    /\ dragOffset = [x |-> 0, y |-> 0]
    /\ customTextCount = 0
    /\ customPhotoCount = 0
    /\ addedKeys = {}
    /\ customElements = <<>>
    /\ customLabels = <<>>
    /\ lastOp = [op |-> "init", key |-> NoKey]
    /\ opCount = 0
    /\ token \in Users \cup {NoUser}
    /\ \/ /\ editingTemplateId = "none"
          /\ savedTemplates = <<>>
          /\ tNextId = 1
       \/ /\ editingTemplateId = TemplateId(1)
          /\ \E owner \in Users : savedTemplates = <<EditedTemplate(owner)>>
          /\ tNextId = 2
    /\ tNow = 0
    /\ tRequests = 0
    /\ tResponse = [op |-> "none"]
    /\ tLastWrite = [op |-> "none"]
    /\ isOpen = TRUE
    /\ showSaveModal = FALSE
    /\ templateName = <<>>
    /\ templateVisibility = "private"
    /\ isSaving = FALSE
    /\ saveCall = Idle
    /\ store = replaceAll(ImportedRecords)
    /\ attendees = fetchAttendees(store)
    /\ isProcessingFile = FALSE
    /\ pc = "idle"
    /\ file = <<>>
    /\ aiOutcome = "none"
    /\ columnMapping = <<>>
    /\ parsedData = <<>>
    /\ importNo = 0
    /\ before = <<>>
    /\ mergedList = <<>>
    /\ fallbackJobs = <<>>
    /\ editModalOpen = FALSE
    /\ editingAttendee = NoAttendee
    /\ isBulkEdit = FALSE
    /\ isCreatingNew = FALSE
    /\ selectedIds = {}
    /\ formData = <<>>
    /\ editCall = Idle
    /\ alerts = <<>>
    /\ clicks = 0
    /\ ResolveIdle
    /\ ParseIdle
    /\ LateIdle

OpenSaveModal == DialogOnly /\ openSaveModal
SetTemplateName == DialogOnly /\ \E n \in TemplateNames : setTemplateName(n)
SetTemplateVisibility == DialogOnly /\ \E v \in {"private", "public"} : setTemplateVisibility(v)
CancelSaveModal == DialogOnly /\ cancelSaveModal
CloseEditor == DialogOnly /\ closeEditor
EditLayout == isOpen /\ ~showSaveModal /\ EditorOnly /\ toggleVisibility("name")
SaveAsTemplate == DialogOnly /\ handleSaveAsTemplate
UpdateExistingTemplate == DialogOnly /\ handleUpdateExistingTemplate
SaveAnswered == DialogOnly /\ \E t \in Timestamps : saveAnswered(t)
SaveRejected == DialogOnly /\ saveRejected
SaveResponded == DialogOnly /\ saveResponded
SaveErrorRead == DialogOnly /\ \E ok \in BOOLEAN : saveErrorRead(ok)
EditClick == ModalOnly /\ \E i \in 1..Len(attendees) : handleEditClick(i)
ToggleSelection == ModalOnly /\ \E i \in 1..Len(attendees) : toggleSelection(i)
BulkEditClick == ModalOnly /\ handleBulkEditClick
AddManualClick == ModalOnly /\ handleAddManualClick
Change == ModalOnly /\ \E v \in {TextVIP} : handleChange(v)
CloseModal == ModalOnly /\ handleCloseModal
Submit == ModalOnly /\ handleSubmit
SaveEditSettled == ModalOnly /\ \E reached \in BOOLEAN : saveEditSettled(reached)
SaveEditReloaded == ModalOnly /\ \E ok \in BOOLEAN : saveEditReloaded(ok)

NextSave ==
    \/ OpenSaveModal \/ SetTemplateName \/ SetTemplateVisibility \/ CancelSaveModal
    \/ CloseEditor \/ EditLayout \/ SaveAsTemplate \/ UpdateExistingTemplate
    \/ SaveAnswered \/ SaveRejected \/ SaveResponded \/ SaveErrorRead
    \/ EditClick \/ ToggleSelection \/ BulkEditClick \/ AddManualClick \/ Change
    \/ CloseModal \/ Submit \/ SaveEditSettled \/ SaveEditReloaded

SpecSave == InitSave /\ [][NextSave]_vars

\* a save or update call of the template editor is pending
SavePending == saveCall.stage # "idle"

\* the call has been answered with a success status
SaveSucceeded == saveCall.stage = "answered" /\ IsOk(tResponse.status)

C19_Step ==
    /\ currentLayout' # currentLayout =>
          /\ SaveSucceeded
          /\ currentLayout' = saveCall.body.layout
          /\ ~isOpen'
    /\ (isOpen /\ ~isOpen' /\ clicks' = clicks) => SaveSucceeded
    /\ (SavePending /\ ~SaveSucceeded) => currentLayout' = currentLayout

\* C19: the template editor hands its layout to the parent and closes (other
\* than by the user's own close) only in the step that follows a successful
\* answer to the save or update call; while the call is pending and when it
\* fails the parent's active layout stays as it was; the saving flag is true
\* exactly while a call is pending.
C19_HandOverAfterSuccess == [](isSaving <=> SavePending) /\ [][C19_Step]_vars

\* an edited layout was handed over and the editor closed after a save
C19_Witness ==
    /\ ~isOpen
    /\ ~isSaving
    /\ currentLayout = layout
    /\ layout # DEFAULT_LAYOUTS(templateType)
    /\ tResponse.op \in {"save", "update"}

\* a save of an edited layout failed: the flag is cleared, the parent's
\* layout is still the old one
C19_WitnessFailure ==
    /\ Len(alerts) > 0
    /\ alerts[Len(alerts)].from = "template"
    /\ ~isSaving
    /\ isOpen
    /\ currentLayout # layout

C20_Step ==
    Len(alerts') > Len(alerts) =>
        LET shown == alerts'[Len(alerts')]
        IN /\ shown.message # ""
           /\ shown.from = "record" => editModalOpen'
           /\ shown.from = "template" =>
                 /\ isOpen' = isOpen
                 /\ showSaveModal' = showSaveModal
                 /\ templateName' = templateName
                 /\ layout' = layout

\* C20: when a record update or a template save or update call fails, a
\* message is shown and the editor it was issued from is open afterwards with
\* the user's input: the record edit modal is open; the template editor, its
\* dialog, the typed name and the layout are as the user left them.
C20_FailureKeepsEditorOpen == [][C20_Step]_vars

----------------------------------------------------------------------------
(* The field lists of the main screen and the edit modal's Delete button   *)
(* (App.tsx 263-332, 597-606, 903-953; EditModal.tsx 36-55, 435-445)       *)

TextOrgLower == <<"o", "r", "g">>
TextOrgPadded == <<" ", "O", "R", "G">>
TextORG == <<"O", "R", "G">>
TextInc == <<"I", "n", "c">>
TextLtd == <<"L", "t", "d">>
TextSchoolID == <<"S", "c", "h", "o", "o", "l", " ", "I", "D">>
TextClass == <<"C", "l", "a", "s", "s">>
TextRegistrationID == <<"R", "e", "g", "i", "s", "t", "r", "a", "t", "i", "o", "n", " ", "I", "D">>
TextPassType == <<"P", "a", "s", "s", " ", "T", "y", "p", "e">>
TextCompanySchool == <<"C", "o", "m", "p", "a", "n", "y", "/", "S", "c", "h", "o", "o", "l">>
TextPrincipalSign == <<"P", "r", "i", "n", "c", "i", "p", "a", "l", " ", "S", "i", "g", "n">>

\* a.toLowerCase() === b.toLowerCase()
SameLabelExactly(a, b) == a = b
SameLabel(a, b) == toLowerCase(a) = toLowerCase(b)

Contains(seq, x) == \E i \in 1..Len(seq) : seq[i] = x

\* Set.add on an insertion-ordered Set
setAdd(seq, x) == IF Contains(seq, x) THEN seq ELSE Append(seq, x)

RECURSIVE addLabels(_, _)
addLabels(seq, xs) == IF xs = <<>> THEN seq ELSE addLabels(setAdd(seq, Head(xs)), Tail(xs))

\* Object.keys(item.extraFields || {})
ExtraLabels(item) ==
    IF "extraFields" \in DOMAIN item
    THEN [i \in 1..Len(item.extraFields) |-> item.extraFields[i][1]]
    ELSE <<>>

\* {...item, extraFields: extras}
WithExtras(item, extras) ==
    [f \in DOMAIN item \cup {"extraFields"} |->
        IF f = "extraFields" THEN extras ELSE item[f]]

\* labelMap of captureDetectedFields, for the fields a record carries here
labelMap ==
    << <<"schoolId", TextSchoolID>>, <<"className", TextClass>>,
       <<"registrationId", TextRegistrationID>>, <<"passType", TextPassType>>,
       <<"company", TextCompanySchool>>, <<"name", TextName>> >>

\* the labels of the known fields that hold a value in item
KnownLabels(item) ==
    LET held == SelectSeq(labelMap, LAMBDA e : e[1] \in DOMAIN item /\ Truthy(item[e[1]]))
    IN [i \in 1..Len(held) |-> held[i][2]]

RECURSIVE FieldsOf(_, _)
FieldsOf(items, fields) ==
    IF items = <<>> THEN fields
    ELSE FieldsOf(Tail(items),
                  addLabels(addLabels(fields, KnownLabels(Head(items))), ExtraLabels(Head(items))))

RECURSIVE ExtrasOf(_, _)
ExtrasOf(items, labels) ==
    IF items = <<>> THEN labels
    ELSE ExtrasOf(Tail(items), addLabels(labels, ExtraLabels(Head(items))))

\* captureDetectedFields(items) as called with the custom fields and the
\* hidden set of the render it was created in: [customFields, detectedFields]
captureDetectedFields(items, custom, detected, hidden) ==
    IF items = <<>>
    THEN [customFields |-> custom,
          detectedFields |-> IF custom # <<>> THEN addLabels(<<>>, custom) ELSE detected]
    ELSE [customFields |-> ExtrasOf(items, custom),
          detectedFields |->
              SelectSeq(addLabels(addLabels(FieldsOf(items, <<>>), custom),
                               <<TextPrincipalSign, TextOrganization>>),
                        LAMBDA f : f \notin hidden)]

\* history: the keys of the records' extras and the hidden labels that match target
MatchingKeys(target) ==
    {k \in UNION {{ExtraLabels(attendees[i])[j] : j \in 1..Len(ExtraLabels(attendees[i]))} :
                      i \in 1..Len(attendees)} :
        toLowerCase(k) = toLowerCase(target)}
MatchingHidden(target) == {h \in hiddenFields : toLowerCase(h) = toLowerCase(target)}
FieldOp(op, label) ==
    [op |-> op, label |-> label, had |-> MatchingKeys(trim(label)),
     hid |-> MatchingHidden(trim(label))]

\* the x of a label on the main screen
handleHideDetectedField(field) ==
    /\ Click
    /\ attendees # <<>>
    /\ Contains(detectedFields, field)
    /\ hiddenFields' = hiddenFields \cup {field}
    /\ detectedFields' = SelectSeq(detectedFields, LAMBDA f : f # field)
    /\ fieldOp' = FieldOp("hide", field)
    /\ UNCHANGED <<customFields, attendees>>

\* the "Show hidden" button
handleRestoreHiddenFields ==
    /\ Click
    /\ hiddenFields # {} /\ detectedFields # <<>>
    /\ hiddenFields' = {}
    /\ LET captured == captureDetectedFields(attendees, customFields, detectedFields,
                                             hiddenFields)
       IN /\ customFields' = captured.customFields
          /\ detectedFields' = captured.detectedFields
    /\ fieldOp' = FieldOp("restore", <<>>)
    /\ UNCHANGED attendees

\* [trimmed]: (a.extraFields || {})[trimmed] || ''
PutLabel(extras, label) ==
    IF HasKey(extras, label)
    THEN [i \in 1..Len(extras) |->
             IF extras[i][1] = label /\ ~Truthy(extras[i][2]) THEN <<label, <<>>>>
             ELSE extras[i]]
    ELSE Append(extras, <<label, <<>>>>)

\* the "+ Add field" prompt
handleAddCustomField(label) ==
    /\ Click
    /\ label # <<>>
    /\ LET trimmed == trim(label) IN
       IF trimmed = <<>> \/ \E i \in 1..Len(customFields) : SameLabel(customFields[i], trimmed)
       THEN UNCHANGED <<customFields, detectedFields, attendees>>
       ELSE /\ customFields' = Append(customFields, trimmed)
            /\ detectedFields' = setAdd(detectedFields, trimmed)
            /\ attendees' = [i \in 1..Len(attendees) |->
                                WithExtras(attendees[i],
                                           PutLabel(IF "extraFields" \in DOMAIN attendees[i]
                                                    THEN attendees[i].extraFields ELSE <<>>,
                                                    trimmed))]
    /\ fieldOp' = FieldOp("add", label)
    /\ UNCHANGED hiddenFields

\* handleDeleteCustomField(label): four state updates of one event handler,
\* applied together in one render
handleDeleteCustomField(label) ==
    /\ Click
    /\ LET target == trim(label) IN
       IF target = <<>>
       THEN UNCHANGED <<customFields, detectedFields, hiddenFields, attendees>>
       ELSE /\ customFields' = SelectSeq(customFields, LAMBDA f : ~SameLabel(f, target))
            /\ detectedFields' = SelectSeq(detectedFields, LAMBDA f : ~SameLabel(f, target))
            /\ hiddenFields' = {h \in hiddenFields : ~SameLabel(h, target)}
            /\ attendees' = [i \in 1..Len(attendees) |->
                                IF "extraFields" \notin DOMAIN attendees[i] THEN attendees[i]
                                ELSE WithExtras(attendees[i],
                                                SelectSeq(attendees[i].extraFields,
                                                          LAMBDA e : ~SameLabel(e[1], target)))]
    /\ fieldOp' = FieldOp("delete", label)

\* EditModal: the labels listed under Custom Fields
mergedCustomFields == addLabels(addLabels(<<>>, customFields), ExtraLabels(formData))

\* EditModal: the Delete button of a custom field
deleteInModal(label) ==
    /\ editModalOpen
    /\ Contains(mergedCustomFields, label)
    /\ removedFields' = removedFields \cup {label}
    /\ handleDeleteCustomField(label)
    /\ formData' = WithExtras(formData,
                              SelectSeq(IF "extraFields" \in DOMAIN formData
                                        THEN formData.extraFields ELSE <<>>,
                                        LAMBDA e : e[1] # label))

\* setCustomFields of syncCustomFieldsFromAttendee(attendee)
syncCustomFieldsFromAttendee(attendee) == addLabels(customFields, ExtraLabels(attendee))

FieldsFile ==
    join(<<CsvRow(<<TextName, TextOrg, TextOrgLower>>),
           CsvRow(<<TextAda, TextACME, TextInc>>),
           CsvRow(<<TextBob, <<>>, TextLtd>>)>>, "\n")
FieldsMapping == [isNull |-> FALSE, name |-> 0, company |-> 1]
FieldRecords == attendeeDataOf(parseWithMapping(FieldsFile, FieldsMapping).records, 1)

\* the labels typed into the prompt
AddLabels == {TextOrgPadded, TextStage, <<" ">>}
\* the labels whose x is clicked
HideLabels == {TextOrg, TextOrgLower, TextName, TextORG}
\* what localStorage held for the hidden set when the page loaded
StoredHidden == {{}, {TextOrgLower}}

FieldsOnly ==
    UNCHANGED <<resolveVars, editorVars, parseVars, templateVars, dialogVars, filenameVars,
                replayVars, uploadVars>>
mainScreenRest == <<editModalOpen, editingAttendee, isBulkEdit, isCreatingNew, selectedIds,
                    formData, editCall, alerts, store, importRest, removedFields>>

\* the page after sign-in: loadAttendees has fetched the stored records and
\* captured their fields
InitFields ==
    /\ ResolveIdle
    /\ EditorIdle
    /\ ParseIdle
    /\ TemplateIdle
    /\ isOpen = FALSE
    /\ showSaveModal = FALSE
    /\ templateName = <<>>
    /\ templateVisibility = "private"
    /\ isSaving = FALSE
    /\ editingTemplateId = "none"
    /\ token = [id |-> 2, username |-> "asha", role |-> "user"]
    /\ saveCall = Idle
    /\ store = replaceAll(FieldRecords)
    /\ attendees = fetchAttendees(store)
    /\ isProcessingFile = FALSE
    /\ pc = "idle"
    /\ file = <<>>
    /\ aiOutcome = "none"
    /\ columnMapping = <<>>
    /\ parsedData = <<>>
    /\ importNo = 0
    /\ before = <<>>
    /\ mergedList = <<>>
    /\ fallbackJobs = <<>>
    /\ editModalOpen = FALSE
    /\ editingAttendee = NoAttendee
    /\ isBulkEdit = FALSE
    /\ isCreatingNew = FALSE
    /\ selectedIds = {}
    /\ formData = <<>>
    /\ editCall = Idle
    /\ alerts = <<>>
    /\ clicks = 0
    /\ removedFields = {}
    /\ fieldOp = [op |-> "none"]
    /\ FilenameIdle
    /\ ReplayIdle
    /\ UploadIdle
    /\ \E hidden \in StoredHidden :
          /\ hiddenFields = hidden
          /\ customFields = captureDetectedFields(attendees, <<>>, <<>>, hidden).customFields
          /\ detectedFields = captureDetectedFields(attendees, <<>>, <<>>, hidden).detectedFields

HideDetectedField ==
    /\ FieldsOnly
    /\ \E field \in HideLabels : handleHideDetectedField(field)
    /\ UNCHANGED mainScreenRest
RestoreHiddenFields == FieldsOnly /\ handleRestoreHiddenFields /\ UNCHANGED mainScreenRest
AddCustomField ==
    /\ FieldsOnly
    /\ \E label \in AddLabels : handleAddCustomField(label)
    /\ UNCHANGED mainScreenRest
FieldsEditClick ==
    /\ FieldsOnly
    /\ \E i \in 1..Len(attendees) :
          /\ handleEditClick(i)
          /\ customFields' = syncCustomFieldsFromAttendee(attendees[i])
    /\ removedFields' = {}
    /\ fieldOp' = FieldOp("edit", <<>>)
    /\ UNCHANGED <<detectedFields, hiddenFields>>
FieldsCloseModal ==
    /\ FieldsOnly
    /\ handleCloseModal
    /\ fieldOp' = FieldOp("close", <<>>)
    /\ UNCHANGED <<customFields, detectedFields, hiddenFields, removedFields>>
DeleteInModal ==
    /\ FieldsOnly
    /\ \E i \in 1..Len(mergedCustomFields) : deleteInModal(mergedCustomFields[i])
    /\ UNCHANGED <<editModalOpen, editingAttendee, isBulkEdit, isCreatingNew, selectedIds,
                   editCall, alerts, store, importRest>>

NextFields ==
    \/ HideDetectedField
    \/ RestoreHiddenFields
    \/ AddCustomField
    \/ FieldsEditClick
    \/ FieldsCloseModal
    \/ DeleteInModal

SpecFields == InitFields /\ [][NextFields]_vars

----------------------------------------------------------------------------
(* Card file names (part_007)                                              *)

MaxPieces == 2

TextAttendeeWord == <<"A", "t", "t", "e", "n", "d", "e", "e">>
TextCompany == <<"C", "o", "m", "p", "a", "n", "y">>
TextPass == <<"P", "a", "s", "s">>
TextIDCard == <<"I", "D", "C", "a", "r", "d">>
TextDefaultTemplate == <<"{", "n", "a", "m", "e", "}", "_", "I", "D", "C", "A", "R", "D">>
TextKeyCompany == <<"c", "o", "m", "p", "a", "n", "y">>
TextKeyRegistrationId ==
    <<"r", "e", "g", "i", "s", "t", "r", "a", "t", "i", "o", "n", "I", "d">>
TextKeySchoolId == <<"s", "c", "h", "o", "o", "l", "I", "d">>
TextKeyPassType == <<"p", "a", "s", "s", "T", "y", "p", "e">>
TextKeyRole == <<"r", "o", "l", "e">>
TextRoleUpper == <<"R", "O", "L", "E">>

\* the alternatives of the placeholder pattern, as written in the source
PlaceholderKeys ==
    <<TextNameLower, TextKeyCompany, TextKeyRegistrationId, TextKeySchoolId, TextKeyPassType,
      TextKeyRole>>

\* a || b on texts
OrText(a, b) == IF a # <<>> THEN a ELSE b

\* the replacements object of applyTemplate: property name -> text
replacements(attendee) ==
    << <<TextNameLower, OrText(attendee.name, TextAttendeeWord)>>,
       <<TextKeyCompany, OrText(attendee.company, TextCompany)>>,
       <<TextKeyRegistrationId, OrText(attendee.registrationId, TextID)>>,
       <<TextKeySchoolId, OrText(attendee.schoolId, OrText(attendee.registrationId, TextID))>>,
       <<TextKeyPassType, OrText(attendee.passType, TextPass)>>,
       <<TextKeyRole, OrText(RoleText(attendee.role), TextAttendeeWord)>> >>

\* replacements[key] with the key as written in the object
replacementAsWritten(attendee, key) ==
    LET i == CHOOSE j \in 1..Len(PlaceholderKeys) :
                 toLowerCase(PlaceholderKeys[j]) = toLowerCase(key)
    IN replacements(attendee)[i][2]

\* replacements[key.toLowerCase()] ?? ''
replacement(attendee, key) ==
    LET normalizedKey == toLowerCase(key)
    IN IF HasKey(replacements(attendee), normalizedKey)
       THEN Lookup(replacements(attendee), normalizedKey)
       ELSE <<>>

Brace(key) == <<"{">> \o key \o <<"}">>

\* the placeholder the pattern /\{(name|...|role)\}/gi matches at the start of s
MatchAt(s) ==
    {i \in 1..Len(PlaceholderKeys) :
        /\ Len(s) >= Len(PlaceholderKeys[i]) + 2
        /\ toLowerCase(SubSeq(s, 1, Len(PlaceholderKeys[i]) + 2))
               = toLowerCase(Brace(PlaceholderKeys[i]))}

\* safeTemplate.replace(pattern, (_, key) => ...)
RECURSIVE replacePlaceholders(_, _)
replacePlaceholders(s, attendee) ==
    IF s = <<>> THEN <<>>
    ELSE IF MatchAt(s) # {}
    THEN LET i == CHOOSE j \in MatchAt(s) : TRUE
             n == Len(PlaceholderKeys[i]) + 2
         IN replacement(attendee, SubSeq(s, 2, n - 1))
                \o replacePlaceholders(SubSeq(s, n + 1, Len(s)), attendee)
    ELSE <<Head(s)>> \o replacePlaceholders(Tail(s), attendee)

applyTemplate(template, attendee) ==
    replacePlaceholders(IF trim(template) # <<>> THEN template ELSE TextDefaultTemplate,
                        attendee)

ForbiddenChars == {"\\", "/", ":", "*", "?", "\"", "<", ">", "|"}

\* .replace(/\s+/g, '_')
RECURSIVE squeezeSpaces(_)
squeezeSpaces(s) ==
    IF s = <<>> THEN <<>>
    ELSE IF IsSpace(Head(s)) THEN <<"_">> \o squeezeSpaces(TrimLeft(s))
    ELSE <<Head(s)>> \o squeezeSpaces(Tail(s))

\* .replace(/_{2,}/g, '_')
RECURSIVE squeezeUnderscores(_)
squeezeUnderscores(s) ==
    IF Len(s) < 2 THEN s
    ELSE IF s[1] = "_" /\ s[2] = "_" THEN squeezeUnderscores(Tail(s))
    ELSE <<Head(s)>> \o squeezeUnderscores(Tail(s))

\* .replace(/^_+|_+$/g, '')
RECURSIVE stripUnderscores(_)
stripUnderscores(s) ==
    IF s # <<>> /\ Head(s) = "_" THEN stripUnderscores(Tail(s))
    ELSE IF s # <<>> /\ s[Len(s)] = "_" THEN stripUnderscores(SubSeq(s, 1, Len(s) - 1))
    ELSE s

sanitize(value) ==
    stripUnderscores(squeezeUnderscores(squeezeSpaces(
        SelectSeq(value, LAMBDA c : c \notin ForbiddenChars))))

ExtensionText(extension) == IF extension = "png" THEN <<"p", "n", "g">> ELSE <<"j", "p", "g">>

buildCardFilename(attendee, template, extension) ==
    LET rendered == applyTemplate(template, attendee)
        sanitized == sanitize(rendered)
        fallback == IF sanitized # <<>> THEN sanitized ELSE TextIDCard
    IN [done |-> TRUE, rendered |-> rendered,
        filename |-> fallback \o <<".">> \o ExtensionText(extension)]

\* the pieces a file name template is put together from
TemplatePieces ==
    {Brace(TextNameLower), Brace(TextNameUpper), Brace(TextCompany),
     Brace(TextKeyRegistrationId), Brace(TextKeySchoolId), Brace(TextKeyPassType),
     Brace(TextKeyRole), Brace(TextRoleUpper), Brace(TextX),
     <<"_", "I", "D">>, <<" ">>, <<"/">>}

RECURSIVE concat(_)
concat(pieces) == IF pieces = <<>> THEN <<>> ELSE Head(pieces) \o concat(Tail(pieces))

FilenameTemplates == {concat(ps) : ps \in UNION {[1..n -> TemplatePieces] : n \in 0..MaxPieces}}

FilenameOnly ==
    UNCHANGED <<resolveVars, editorVars, importVars, parseVars, templateVars, saveVars,
                fieldVars, replayVars, uploadVars>>

InitFilename ==
    /\ ResolveIdle
    /\ EditorIdle
    /\ ImportIdle
    /\ ParseIdle
    /\ TemplateIdle
    /\ SaveIdle
    /\ FieldIdle
    /\ ReplayIdle
    /\ UploadIdle
    /\ fnAttendee \in {ImportedRecords[i] : i \in 1..Len(ImportedRecords)}
    /\ fnTemplate \in FilenameTemplates
    /\ fnExtension \in {"png", "jpg"}
    /\ fnResult = [done |-> FALSE]

BuildCardFilename ==
    /\ FilenameOnly
    /\ ~fnResult.done
    /\ fnResult' = buildCardFilename(fnAttendee, fnTemplate, fnExtension)
    /\ UNCHANGED <<fnAttendee, fnTemplate, fnExtension>>

NextFilename == BuildCardFilename

SpecFilename == InitFilename /\ [][NextFilename]_vars

\* C22: a template that is one of the six placeholders, in any letter case,
\* renders as the record's value of that field.
C22_PlaceholdersReplaced ==
    fnResult.done =>
        \A i \in 1..Len(PlaceholderKeys) :
            toLowerCase(fnTemplate) = toLowerCase(Brace(PlaceholderKeys[i]))
                => fnResult.rendered = replacementAsWritten(fnAttendee, PlaceholderKeys[i])

\* the part that holds: {name}, {company} and {role} in any letter case
C22_LowercaseKeysReplaced ==
    fnResult.done =>
        \A i \in {1, 2, 6} :
            toLowerCase(fnTemplate) = toLowerCase(Brace(PlaceholderKeys[i]))
                => fnResult.rendered = replacementAsWritten(fnAttendee, PlaceholderKeys[i])

----------------------------------------------------------------------------
(* One layout rendered over a list of records                              *)
(* (App.tsx 1566-1583, IDCard.tsx 264-285, TemplateEditor.tsx 481-505)     *)

MaxReplay == 2

ReplayKeys == {"name", "customText1"}
ReplayLabelMaps == {<<>>, [k \in {"name"} |-> TextNameLower], [k \in {"customText1"} |-> TextName]}
ReplayRecords ==
    {r \in ResolveRecords :
        \A i \in 1..Len(r.extras) :
            r.extras[i][1] \in {TextName, TextNameLower} /\ r.extras[i][2] \in {<<>>, TextX}}

\* the next record of the list is rendered: getElementValue reads the record
\* and the label map, and writes neither
renderNextRemembering ==
    /\ Len(rpResults) < Len(rpRecords)
    /\ LET value == getElementValue(rSide, rKey, rCustomLabels, rpRecords[Len(rpResults) + 1])
       IN /\ rpResults' = Append(rpResults, value)
          /\ rCustomLabels' = [k \in DOMAIN rCustomLabels \cup {rKey} |->
                                  IF k = rKey THEN value ELSE rCustomLabels[k]]
    /\ UNCHANGED rpRecords
renderNext ==
    /\ Len(rpResults) < Len(rpRecords)
    /\ rpResults' = Append(rpResults,
                           getElementValue(rSide, rKey, rCustomLabels,
                                           rpRecords[Len(rpResults) + 1]))
    /\ UNCHANGED <<rCustomLabels, rpRecords>>

InitReplay ==
    /\ rSide \in {"editor", "card"}
    /\ rKey \in ReplayKeys
    /\ rCustomLabels \in ReplayLabelMaps
    /\ rRecord = [hasExtras |-> FALSE, extras |-> <<>>]
    /\ rResult = [done |-> FALSE, value |-> <<>>]
    /\ rpRecords \in UNION {[1..n -> ReplayRecords] : n \in 1..MaxReplay}
    /\ rpResults = <<>>
    /\ EditorIdle
    /\ ImportIdle
    /\ ParseIdle
    /\ TemplateIdle
    /\ SaveIdle
    /\ FieldIdle
    /\ FilenameIdle
    /\ UploadIdle

RenderNext ==
    /\ renderNext
    /\ UNCHANGED <<rSide, rKey, rRecord, rResult, editorVars, importVars, parseVars,
                   templateVars, saveVars, fieldVars, filenameVars, uploadVars>>

NextReplay == RenderNext

SpecReplay == InitReplay /\ [][NextReplay]_vars

\* a step leaves the records, the label map and the key as they were
C23_Step ==
    /\ rpRecords' = rpRecords
    /\ rCustomLabels' = rCustomLabels
    /\ rKey' = rKey

----------------------------------------------------------------------------
(* Exact keys and the case-insensitive scan                                *)

\* C24: when extras has a key exactly equal to the label, the call returns
\* that key's value, whatever other keys differ from it only in letter case
\* and wherever they stand in extras.
C24_ExactKeyWins ==
    (rResult.done /\ RIsText /\ RExactKey) =>
        rResult.value = Lookup(rRecord.extras, RLabel)

\* the part that holds: an exactly equal key with a non-empty value wins
C24_NonEmptyExactKeyWins ==
    (rResult.done /\ RIsText /\ RExactKey /\ Lookup(rRecord.extras, RLabel) # <<>>) =>
        rResult.value = Lookup(rRecord.extras, RLabel)

----------------------------------------------------------------------------
(* One delimiter per file                                                  *)

\* the delimiter the claim gives a file: tab when any line holds a tab
FileDelimiter(fileContent) ==
    IF \E i \in 1..Len(lines(fileContent)) : includesChar(lines(fileContent)[i], "\t")
    THEN "\t" ELSE ","

\* C25: the header line and every data line are split at one delimiter, tab
\* when any line of the file holds a tab and comma otherwise, and the header
\* is the first non-empty line.
C25_OneDelimiterPerFile ==
    pParsed.done =>
        /\ headerColumns(pFile)
               = TrimAll(split(headerLine(pFile), FileDelimiter(pFile)))
        /\ \A i \in 1..Len(dataLines(pFile)) :
               columns(dataLines(pFile)[i])
                   = TrimAll(split(trim(dataLines(pFile)[i]), FileDelimiter(pFile)))

\* the part that holds: the header is the first non-empty line, and in a file
\* whose lines all hold a tab, or none, every line is split at one delimiter
C25_UniformFilesOneDelimiter ==
    pParsed.done =>
        /\ lines(pFile) # <<>> =>
               \E i \in 1..Len(PAllLines) :
                   /\ PAllLines[i] = headerLine(pFile)
                   /\ \A j \in 1..(i - 1) : trim(PAllLines[j]) = <<>>
        /\ (\A i, j \in 1..Len(lines(pFile)) :
                includesChar(lines(pFile)[i], "\t") = includesChar(lines(pFile)[j], "\t"))
               => C25_OneDelimiterPerFile

----------------------------------------------------------------------------
(* Which existing records a merging import replaces                        *)

\* the registration id a row carries in the source: the mapped registration
\* id, school id or id cell, empty when the row has none
SourceRegistrationId(cols, mapping) ==
    LET at(f) == pick(cols, mapped(mapping, f))
    IN OrElse(at("registrationId"), OrElse(at("schoolId"), at("id")))

\* the cells of the k-th row of the file that yields a record
ImportedCols(k) == columns(dataLines(file)[KeptIndices(file)[k]])

\* the existing record at position p is not in the merged collection as it was
ReplacedOrDropped(p) == \A q \in 1..Len(mergedList) : mergedList[q] # before[p]

\* C26: a merging import replaces or drops an existing record only when a row
\* of the file carries, in the source, the registration id of that record;
\* rows without a registration id in the source replace nothing, and every
\* other existing record is in the merged collection unchanged.
C26_OnlySourceIdsReplace ==
    HasMerged =>
        \A p \in 1..Len(before) :
            ReplacedOrDropped(p) =>
                \E k \in 1..Len(KeptIndices(file)) :
                    /\ SourceRegistrationId(ImportedCols(k), columnMapping) # <<>>
                    /\ SourceRegistrationId(ImportedCols(k), columnMapping)
                           = before[p].registrationId

\* the part that holds: an existing record is replaced only by a row whose
\* registration id, read from the source or made up, equals its own
C26_OnlyEqualKeysReplace ==
    HasMerged =>
        \A p \in 1..Len(before) :
            ReplacedOrDropped(p) =>
                \E k \in 1..Len(parsedData) : RowKey(k) = KeyOf(before[p])

----------------------------------------------------------------------------
(* The editor's preview and the card resolve the same text                 *)

OtherSide == IF rSide = "editor" THEN "card" ELSE "editor"

\* C27: for one key, label map and record, the editor's preview and the card
\* resolve the same text, with or without a custom label for the key.
C27_PreviewMatchesCard ==
    (rResult.done /\ rKey \notin {"image", "qrCode"}) =>
        rResult.value = getElementValue(OtherSide, rKey, rCustomLabels, rRecord)

\* the part that holds: with a non-empty custom label for the key both sides
\* resolve the same text
C27_CustomLabelMatchesCard ==
    (/\ rResult.done /\ rKey \notin {"image", "qrCode"}
     /\ rKey \in DOMAIN rCustomLabels /\ rCustomLabels[rKey] # <<>>) =>
        rResult.value = getElementValue(OtherSide, rKey, rCustomLabels, rRecord)

----------------------------------------------------------------------------
(* Keys absent from the layout                                             *)

\* the step creates a layout entry for a key that had none
CreatesEntry == \E k \in DOMAIN layout' : k \notin DOMAIN layout

\* C28: a key absent from the layout stays absent, and the layout is
\* otherwise unchanged, under visibility toggles, font size and width changes
\* and pointer moves (also moves while the key is the drag target); only
\* adding an element or a reset to default creates layout entries.
C28_Step ==
    /\ CreatesEntry => (IsAdd(lastOp') \/ lastOp'.op = "reset")
    /\ (/\ opCount' # opCount
        /\ lastOp'.op \in {"hide", "show", "fontSize", "width", "mouseMove"}
        /\ lastOp'.key \notin DOMAIN layout) => layout' = layout

C28_AbsentKeyStaysAbsent == [][C28_Step]_vars

\* the part that holds: while the drag target has a layout entry, only adds
\* and resets create entries
C28_PresentTargetStep ==
    (CreatesEntry /\ ~(IsAdd(lastOp') \/ lastOp'.op = "reset")) =>
        /\ lastOp'.op = "mouseMove"
        /\ isDragging /\ selectedElement \notin DOMAIN layout

C28_OnlyStaleDragCreates == [][C28_PresentTargetStep]_vars

----------------------------------------------------------------------------
(* Image upload for one record (App.tsx 736-788) and the row update        *)
(* (server/index.js 311-343)                                               *)

UploadFiles == {"photo-1"}

\* { ...existing, ...sent } on insertion-ordered objects
RECURSIVE SpreadExtras(_, _)
SpreadExtras(existing, sent) ==
    IF sent = <<>> THEN existing
    ELSE SpreadExtras(PutExtra(existing, Head(sent)[1], Head(sent)[2]), Tail(sent))

\* buildExtrasPayload(payload, existingExtras): a ?? b per field, then the
\* empty ones deleted
mergeExtrasPayload(payload, existingExtras) ==
    LET coalesce(f) == IF Has(payload, f) /\ payload[f] # Undefined THEN payload[f]
                       ELSE existingExtras[f]
    IN [schoolId |-> IF Truthy(coalesce("schoolId")) THEN coalesce("schoolId") ELSE Undefined,
        className |-> IF Truthy(coalesce("className")) THEN coalesce("className")
                      ELSE Undefined,
        extraFields |-> SpreadExtras(existingExtras.extraFields,
                                     IF Has(payload, "extraFields") THEN payload.extraFields
                                     ELSE <<>>)]

\* PATCH /api/attendees/:id: every column takes COALESCE(sent value, column)
patchAttendeeRow(row, payload) ==
    LET columns0 == [PatchedRow(row, payload) EXCEPT
                        !.extras = mergeExtrasPayload(payload, row.extras)]
    IN IF Has(payload, "image") THEN Spread(columns0, [image |-> payload.image])
       ELSE columns0

patchAttendee(rows, id, payload) ==
    [i \in 1..Len(rows) |-> IF rows[i].id = id THEN patchAttendeeRow(rows[i], payload)
                            ELSE rows[i]]

\* attendees.find(a => a.id === attendeeId) on the list the handler closed over
FindById(list, id) == list[CHOOSE j \in 1..Len(list) : list[j].id = id]

\* prev.map(a => a.id === attendeeId ? f(a) : a)
MapById(list, id, mapper(_)) ==
    [j \in 1..Len(list) |-> IF list[j].id = id THEN mapper(list[j]) ELSE list[j]]

\* the click on a card's photo: the loading flag is set, then removeBackground
\* is awaited; one upload is followed at a time
handleImageUpload(i, f) ==
    /\ Click
    /\ token # NoUser
    /\ uploadCall.stage = "idle"
    /\ attendees' = MapById(attendees, attendees[i].id,
                            LAMBDA a : Spread(a, [isProcessingImage |-> TRUE]))
    /\ uploadCall' = [stage |-> "processing", id |-> attendees[i].id, list |-> attendees,
                      file |-> f, fallback |-> FALSE]
    /\ UNCHANGED store

\* the payload is built from the record of the list the handler closed over
UploadPayload(call, image) ==
    Spread(FindById(call.list, call.id), [image |-> image, isProcessingImage |-> FALSE])

\* removeBackground settled: on success the cut-out is encoded and sent, on
\* failure the catch block alerts and sends the original file
imageProcessed(ok) ==
    /\ uploadCall.stage = "processing"
    /\ IF ok
       THEN /\ uploadCall' = [uploadCall EXCEPT !.stage = "patching"]
                                 @@ [payload |-> UploadPayload(uploadCall,
                                                               [cut |-> uploadCall.file])]
            /\ UNCHANGED alerts
       ELSE /\ uploadCall' = [uploadCall EXCEPT !.stage = "patching", !.fallback = TRUE]
                                 @@ [payload |-> UploadPayload(uploadCall,
                                                               [raw |-> uploadCall.file])]
            /\ Alert("image", "Failed to process image. Using original image instead.")
    /\ UNCHANGED <<attendees, store, clicks>>

\* apiUpdateAttendee settled: on success the record is replaced by the
\* payload; a failure in the try block goes to the catch block, a failure in
\* the fallback ends the handler
imagePatched(reached) ==
    /\ uploadCall.stage = "patching"
    /\ IF reached /\ token # NoUser
       THEN /\ store' = patchAttendee(store, uploadCall.id, uploadCall.payload)
            /\ attendees' = MapById(attendees, uploadCall.id, LAMBDA a : uploadCall.payload)
            /\ uploadCall' = Idle
            /\ UNCHANGED alerts
       ELSE /\ UNCHANGED <<store, attendees>>
            /\ IF uploadCall.fallback
               THEN uploadCall' = Idle /\ UNCHANGED alerts
               ELSE /\ uploadCall' = [uploadCall EXCEPT
                                         !.fallback = TRUE,
                                         !.payload = UploadPayload(uploadCall,
                                                                   [raw |-> uploadCall.file])]
                    /\ Alert("image", "Failed to process image. Using original image instead.")
    /\ UNCHANGED clicks

UploadOnly ==
    UNCHANGED <<resolveVars, editorVars, parseVars, templateVars, dialogVars, fieldVars,
                filenameVars, replayVars, importRest, editModalOpen, editingAttendee,
                isBulkEdit, isCreatingNew, selectedIds, formData, editCall>>

\* the page with the example records stored and shown
InitUpload ==
    /\ ResolveIdle
    /\ EditorIdle
    /\ ParseIdle
    /\ TemplateIdle
    /\ FieldIdle
    /\ FilenameIdle
    /\ ReplayIdle
    /\ UploadIdle
    /\ isOpen = FALSE
    /\ showSaveModal = FALSE
    /\ templateName = <<>>
    /\ templateVisibility = "private"
    /\ isSaving = FALSE
    /\ editingTemplateId = "none"
    /\ token = [id |-> 2, username |-> "asha", role |-> "user"]
    /\ saveCall = Idle
    /\ store = replaceAll(ImportedRecords)
    /\ attendees = fetchAttendees(store)
    /\ isProcessingFile = FALSE
    /\ pc = "idle"
    /\ file = <<>>
    /\ aiOutcome = "none"
    /\ columnMapping = <<>>
    /\ parsedData = <<>>
    /\ importNo = 0
    /\ before = <<>>
    /\ mergedList = <<>>
    /\ fallbackJobs = <<>>
    /\ editModalOpen = FALSE
    /\ editingAttendee = NoAttendee
    /\ isBulkEdit = FALSE
    /\ isCreatingNew = FALSE
    /\ selectedIds = {}
    /\ formData = <<>>
    /\ editCall = Idle
    /\ alerts = <<>>
    /\ clicks = 0

ImageUpload ==
    /\ UploadOnly
    /\ \E i \in 1..Len(attendees), f \in UploadFiles : handleImageUpload(i, f)
    /\ UNCHANGED alerts
ImageProcessed == UploadOnly /\ \E ok \in BOOLEAN : imageProcessed(ok)
ImagePatched == UploadOnly /\ \E reached \in BOOLEAN : imagePatched(reached)

NextUpload ==
    \/ ImageUpload \/ ImageProcessed \/ ImagePatched
    \/ EditClick \/ Change \/ CloseModal \/ Submit \/ SaveEditSettled \/ SaveEditReloaded

SpecUpload == InitUpload /\ [][NextUpload]_vars

\* the step in which an upload's update has been stored and shown
UploadCompletes ==
    /\ uploadCall.stage = "patching"
    /\ uploadCall'.stage = "idle"
    /\ (store' # store \/ attendees' # attendees)

\* the fields of a record or row other than the image and its loading flag
OtherFields(r) == DOMAIN r \ {"image", "isProcessingImage"}
SameButImage(r, s) ==
    /\ OtherFields(r) = OtherFields(s)
    /\ \A f \in OtherFields(r) : r[f] = s[f]

\* C29: the step that completes an upload changes only the image of the
\* record it was made for: every other field of that record, and every other
\* record, is in the collection and in the store as it was just before,
\* edits made while the upload was being processed included.
C29_Step ==
    UploadCompletes =>
        /\ Len(attendees') = Len(attendees) /\ Len(store') = Len(store)
        /\ \A j \in 1..Len(attendees) :
               IF attendees[j].id = uploadCall.id
               THEN SameButImage(attendees'[j], attendees[j])
               ELSE attendees'[j] = attendees[j]
        /\ \A j \in 1..Len(store) :
               IF store[j].id = uploadCall.id
               THEN SameButImage(store'[j], store[j])
               ELSE store'[j] = store[j]

C29_UploadChangesOnlyImage == [][C29_Step]_vars

\* the part that holds: the records and rows the upload was not made for are
\* as they were just before
C29_OtherRecordsStep ==
    UploadCompletes =>
        /\ \A j \in 1..Len(attendees) :
               attendees[j].id # uploadCall.id => attendees'[j] = attendees[j]
        /\ \A j \in 1..Len(store) :
               store[j].id # uploadCall.id => store'[j] = store[j]

C29_OtherRecordsKept == [][C29_OtherRecordsStep]_vars

----------------------------------------------------------------------------
(* The busy flag of the Import Data input over an import's whole course     *)

\* the imports that have started and have not yet ended: the one the handler
\* is running and the fallback reads whose writes are still to come
ImportsInProgress == (IF pc = "idle" THEN 0 ELSE 1) + Len(fallbackJobs)

\* C30: while an import is in progress, from its start until its records
\* have been written or it has ended, on the classifier's path and on the
\* fallback path, the busy flag is set and it is the only import in progress.
C30_BusyUntilWritten ==
    ImportsInProgress > 0 => (isProcessingFile /\ ImportsInProgress = 1)

\* the part that holds: the flag is set for as long as the handler itself
\* runs, no import starts while it is set, and the classifier's path writes
\* while it is set
C30_HandlerStep ==
    /\ pc # "idle" => isProcessingFile
    /\ (importNo' # importNo) => (~isProcessingFile /\ pc = "idle" /\ isProcessingFile')
    /\ (pc = "importing" /\ pc' = "loading") => (isProcessingFile /\ isProcessingFile')

C30_HandlerHoldsFlag == [][C30_HandlerStep]_vars

====
